------------------------------ MODULE MailSync ------------------------------
(***************************************************************************)
(* The mail of one account: at the server, in the tables, and in the list  *)
(* on the screen.  The interface changes the list and the tables at once   *)
(* and leaves the rest to a task; tasks run beside each other and beside   *)
(* the interface, nothing orders or cancels them, and what they bring is   *)
(* saved when it comes.  A sync starts every five minutes, after every     *)
(* change of the settings, and when the user asks for one.                 *)
(*                                                                         *)
(* An email is the mailbox it is in, whether it is read, and whether its   *)
(* text is there; the fifty newest of a mailbox are all of it.             *)
(***************************************************************************)
EXTENDS Naturals, FiniteSets

CONSTANTS Email, Box, None,
          Slot,       \* how many tasks run at once
          MaxChanges, \* how often a user, here or elsewhere, changes something
          MaxFaults   \* how many requests fail or are refused

VARIABLES
  protocol, \* jmap or imap
  server,   \* each email there, or None
  expunge,  \* the emails flagged \Deleted (IMAP)
  rows,     \* the emails table
  boxRows,  \* the mailboxes table
  list,     \* mail_state.emails
  boxes,    \* mail_state.mailboxes
  selected, \* mail_state.selected_email: its id
  box,      \* mail_state.selected_mailbox
  tasks,    \* what runs: [Slot -> task or None]
  changes, faults,
  fresh,    \* a sync finished undisturbed, and nothing changed since
  alone,    \* nothing disturbed the sync that is running
  known,    \* the emails that have been at the server
  gone,     \* the emails another client deleted
  raced     \* the emails deleted here while emails were being fetched

screen == <<list, boxes, selected, box>>
tables == <<rows, boxRows>>
vars == <<protocol, server, expunge, tables, screen, tasks, changes, faults,
          fresh, alone, known, gone, raced>>

NoMail == [e \in Email |-> None]

\* What Email/get returns of an email for the list, and what is built of a
\* message fetched over IMAP, text included.
JmapEmail(e) == [box |-> server[e].box, seen |-> server[e].seen, body |-> FALSE]
ImapEmail(e) == [box |-> server[e].box, seen |-> server[e].seen, body |-> TRUE]

Copy(e) == IF protocol = "imap" THEN ImapEmail(e) ELSE JmapEmail(e)

\* Over IMAP an email is fetched by UID FETCH RFC822 FLAGS, and RFC822 without
\* PEEK marks it as read at the server.
Marked(es) ==
  IF protocol = "imap"
  THEN [e \in Email |-> IF e \in es THEN [server[e] EXCEPT !.seen = TRUE] ELSE server[e]]
  ELSE server

\* The flags of the answer are those from before, or those from after.
Answer(e, after) ==
  IF protocol = "imap" /\ after THEN [ImapEmail(e) EXCEPT !.seen = TRUE] ELSE Copy(e)

\* fetch_email_body: of JMAP, an email that has nothing but its text; over IMAP
\* it is fetched as for the list.
JmapBody == [box |-> None, seen |-> FALSE, body |-> TRUE]

BodyAnswer(e, after) == IF protocol = "imap" THEN Answer(e, after) ELSE JmapBody

Init ==
  /\ protocol \in {"jmap", "imap"}
  /\ server \in [Email -> {None} \cup [box : Box, seen : {FALSE}]]
  /\ expunge = {}
  /\ rows = NoMail /\ boxRows = {}
  /\ list = NoMail /\ boxes = {} /\ selected = None /\ box = None
  /\ tasks = [t \in Slot |-> None]
  /\ changes = 0 /\ faults = 0
  /\ fresh = FALSE /\ alone = FALSE
  /\ known = {e \in Email : server[e] # None} /\ gone = {} /\ raced = {}

-----------------------------------------------------------------------------
\* Tasks

Task(op, arg, at, todo) == [op |-> op, arg |-> arg, at |-> at, todo |-> todo, got |-> NoMail]

Running == {t \in Slot : tasks[t] # None}

Fetching == {t \in Running : tasks[t].op \in {"sync", "fetch"}}

Deleting == {tasks[t].arg : t \in {u \in Running : tasks[u].op = "delete"}}

\* A task starts in a free slot.
Begin(task) ==
  /\ \E t \in Slot \ Running :
       /\ \A u \in Slot \ Running : t = u \/ t = CHOOSE v \in Slot \ Running : TRUE
       /\ tasks' = [tasks EXCEPT ![t] = task]
  /\ alone' = (task.op = "sync" /\ Running = {})
  /\ raced' = raced \cup
       CASE task.op \in {"sync", "fetch"}              -> Deleting
         [] task.op = "delete" /\ Fetching # {}        -> {task.arg}
         [] OTHER                                      -> {}

Becomes(t, task) == tasks' = [tasks EXCEPT ![t] = task]

\* Adds what was fetched to what the task has.
Over(new, old) == [e \in Email |-> IF new[e] # None THEN new[e] ELSE old[e]]

InBox(b) == {e \in Email : server[e] # None /\ server[e].box = b}

\* What was answered: of these emails, with the flags from after for some.
Answers(es, after) == [e \in Email |-> IF e \in es THEN Answer(e, e \in after) ELSE None]

\* load_emails of the account.  Over IMAP the rows carry an account id of their
\* own and are not found; neither are the mailboxes.
Loaded == IF protocol = "imap" THEN NoMail ELSE rows
LoadedBoxes == IF protocol = "imap" THEN {} ELSE boxRows

\* load_personal_data_from_db
LoadFromDb == list' = Loaded /\ boxes' = LoadedBoxes /\ UNCHANGED <<selected, box>>

-----------------------------------------------------------------------------
\* The interface

Change == changes < MaxChanges /\ changes' = changes + 1

SyncPersonalData ==
  /\ Begin(Task("sync", None, "boxes", {}))
  /\ UNCHANGED <<protocol, server, expunge, tables, screen, changes, faults, fresh, known, gone>>

MailboxSelected(b) ==
  /\ Change
  /\ b \in boxes
  /\ box' = b /\ selected' = None
  /\ Begin(Task("fetch", None, "emails", {b}))
  /\ UNCHANGED <<protocol, server, expunge, tables, list, boxes, faults, fresh, known, gone>>

EmailSelected(e) ==
  /\ list[e] # None
  /\ selected' = e
  /\ IF list[e].body
     THEN UNCHANGED <<tasks, alone, raced, changes>>
     ELSE Change /\ Begin(Task("body", e, "request", {}))
  /\ UNCHANGED <<protocol, server, expunge, tables, list, boxes, box, faults, fresh, known, gone>>

\* The list and the row first, then the server.
MarkReadClicked(e, read) ==
  /\ Change
  /\ selected = e /\ list[e] # None /\ read = ~list[e].seen
  /\ list' = [list EXCEPT ![e].seen = read]
  /\ rows' = IF rows[e] = None THEN rows ELSE [rows EXCEPT ![e].seen = read]
  /\ Begin(Task("mark", <<e, read>>, "request", {}))
  /\ fresh' = FALSE
  /\ UNCHANGED <<protocol, server, expunge, boxRows, boxes, selected, box, faults, known, gone>>

\* Mutant: the row is left to the next sync.
DeleteShown(e) ==
  /\ Change
  /\ selected = e
  /\ list' = [list EXCEPT ![e] = None]
  /\ selected' = None
  /\ Begin(Task("delete", e, "request", {}))
  /\ fresh' = FALSE
  /\ UNCHANGED <<protocol, server, expunge, tables, boxes, box, faults, known, gone>>

DeleteClicked(e) ==
  /\ Change
  /\ selected = e
  /\ list' = [list EXCEPT ![e] = None]
  /\ rows' = [rows EXCEPT ![e] = None]
  /\ selected' = None
  /\ Begin(Task("delete", e, "request", {}))
  /\ fresh' = FALSE
  /\ UNCHANGED <<protocol, server, expunge, boxRows, boxes, box, faults, known, gone>>

-----------------------------------------------------------------------------
\* What a task does next.  Between the steps anything else can happen.

\* The outcomes of a request: an HTTP or IMAP error ends in an Err before or
\* after the server did what was asked; a JMAP method error in a successful
\* answer is not looked at; and an email of a mailbox that could not be fetched
\* over IMAP is left out of the list.
Outcome == {"ok", "error", "lost", "refused", "partial"}

Served(outcome) == outcome \in {"ok", "lost"}

Answered(t, outcome) ==
  /\ outcome # "ok" => faults < MaxFaults
  /\ outcome = "refused" => protocol = "jmap"
  /\ outcome = "partial" => protocol = "imap" /\ tasks[t].at = "emails"
  /\ faults' = IF outcome = "ok" THEN faults ELSE faults + 1

Unwatched == UNCHANGED <<protocol, changes, known, gone, raced>>

\* save_mailboxes: over IMAP the old rows are not found, and the insert fails.
SavedBoxes(got) == IF protocol = "imap" /\ boxRows # {} THEN boxRows ELSE got

FetchMailboxes(t, outcome) ==
  LET got == IF outcome = "ok" THEN Box ELSE {}
  IN  /\ tasks[t].at = "boxes"
      /\ Becomes(t, [tasks[t] EXCEPT !.at = IF got = {} THEN "save" ELSE "emails", !.todo = got])
      /\ boxRows' = IF outcome \in {"ok", "refused"} THEN SavedBoxes(got) ELSE boxRows
      /\ UNCHANGED <<server, expunge, rows, screen, fresh>>

\* Which emails of a mailbox the server sends, and which of them arrive.
Sent(b, outcome, sent, got) ==
  /\ got \subseteq sent /\ sent \subseteq InBox(b)
  /\ CASE outcome = "ok"      -> got = InBox(b)
       [] outcome = "partial" -> got # InBox(b)
       [] OTHER               -> sent = {}

\* fetch_emails of a mailbox.  An error ends a fetch, and a sync goes on.
FetchEmails(t, outcome) ==
  LET task == tasks[t]
  IN  /\ task.at = "emails"
      /\ \E b \in task.todo, sent, got, after \in SUBSET Email :
           LET rest == task.todo \ {b}
           IN  /\ Sent(b, outcome, sent, got) /\ after \subseteq got
               /\ server' = Marked(sent)
               /\ IF task.op = "fetch" /\ outcome \in {"error", "lost"}
                  THEN Becomes(t, None)
                  ELSE Becomes(t, [task EXCEPT
                         !.todo = rest,
                         !.at   = IF rest = {} THEN "save" ELSE "emails",
                         !.got  = Over(Answers(got, after), @)])
      /\ UNCHANGED <<expunge, tables, screen, fresh>>

\* fetch_email_body
FetchBody(t, outcome) ==
  LET e == tasks[t].arg
  IN  /\ tasks[t].op = "body" /\ tasks[t].at = "request"
      /\ server' = IF Served(outcome) /\ server[e] # None THEN Marked({e}) ELSE server
      /\ IF outcome = "ok" /\ server[e] # None
         THEN \E after \in BOOLEAN :
                Becomes(t, [tasks[t] EXCEPT !.at = "done", !.got[e] = BodyAnswer(e, after)])
         ELSE Becomes(t, None)
      /\ UNCHANGED <<expunge, tables, screen, fresh>>

Finish(t, outcome) ==
  Becomes(t, IF outcome \in {"ok", "refused"} THEN [tasks[t] EXCEPT !.at = "done"] ELSE None)

\* mark_email_read
MarkEmailRead(t, outcome) ==
  LET e == tasks[t].arg[1]
  IN  /\ tasks[t].op = "mark" /\ tasks[t].at = "request"
      /\ server' = IF Served(outcome) /\ server[e] # None
                   THEN [server EXCEPT ![e].seen = tasks[t].arg[2]] ELSE server
      /\ Finish(t, outcome)
      /\ fresh' = FALSE
      /\ UNCHANGED <<expunge, tables, screen>>

\* delete_email over JMAP: Email/set with the email under "destroy".
DestroyEmail(t, outcome) ==
  LET e == tasks[t].arg
  IN  /\ protocol = "jmap" /\ tasks[t].op = "delete" /\ tasks[t].at = "request"
      /\ server' = IF Served(outcome) THEN [server EXCEPT ![e] = None] ELSE server
      /\ Finish(t, outcome)
      /\ fresh' = FALSE
      /\ UNCHANGED <<expunge, tables, screen>>

\* Over IMAP it is two requests: the email is flagged ...
StoreDeleted(t, outcome) ==
  /\ protocol = "imap" /\ tasks[t].op = "delete" /\ tasks[t].at = "request"
  /\ expunge' = IF Served(outcome) THEN expunge \cup {tasks[t].arg} ELSE expunge
  /\ Becomes(t, IF outcome = "ok" THEN [tasks[t] EXCEPT !.at = "expunge"] ELSE None)
  /\ fresh' = FALSE
  /\ UNCHANGED <<server, tables, screen>>

\* ... and everything that was ever flagged in its mailbox is removed.
Expunge(t, outcome) ==
  LET e       == tasks[t].arg
      flagged == {f \in expunge : server[e] # None /\ server[f] # None /\ server[f].box = server[e].box}
  IN  /\ tasks[t].op = "delete" /\ tasks[t].at = "expunge"
      /\ server' = [f \in Email |-> IF Served(outcome) /\ f \in flagged THEN None ELSE server[f]]
      /\ Finish(t, outcome)
      /\ fresh' = FALSE
      /\ UNCHANGED <<expunge, tables, screen>>

Request(t) ==
  \E outcome \in Outcome :
    /\ Answered(t, outcome)
    /\ \/ FetchMailboxes(t, outcome) \/ FetchEmails(t, outcome) \/ FetchBody(t, outcome)
       \/ MarkEmailRead(t, outcome) \/ DestroyEmail(t, outcome)
       \/ StoreDeleted(t, outcome) \/ Expunge(t, outcome)
    /\ alone' = (alone /\ outcome = "ok" /\ tasks[t].op \in {"sync", "fetch", "body"})
    /\ Unwatched

\* Mutant: rows that are there are left as they are.
InsertEmails(t) ==
  /\ tasks[t].at = "save"
  /\ rows' = Over(rows, tasks[t].got)
  /\ Becomes(t, [tasks[t] EXCEPT !.at = "done"])
  /\ UNCHANGED <<server, expunge, boxRows, screen, faults, fresh, alone>>
  /\ Unwatched

\* save_emails replaces the rows of what was fetched, and deletes none.
SaveEmails(t) ==
  /\ tasks[t].at = "save"
  /\ rows' = Over(tasks[t].got, rows)
  /\ Becomes(t, [tasks[t] EXCEPT !.at = "done"])
  /\ UNCHANGED <<server, expunge, boxRows, screen, faults, fresh, alone>>
  /\ Unwatched

\* The event the task ends with.
Deliver(t) ==
  LET task == tasks[t]
  IN  /\ task.at = "done"
      /\ Becomes(t, None)
      /\ CASE task.op = "fetch" -> list' = task.got /\ UNCHANGED <<boxes, selected, box>>
           [] task.op = "body"  ->
                /\ list' = [e \in Email |->
                     IF e = task.arg /\ list[e] # None THEN task.got[e] ELSE list[e]]
                /\ UNCHANGED <<boxes, selected, box>>
           [] OTHER -> LoadFromDb
      /\ fresh' = (fresh \/ (task.op = "sync" /\ alone))
      /\ UNCHANGED <<server, expunge, tables, faults, alone>>
      /\ Unwatched

Step(t) == t \in Running /\ (Request(t) \/ SaveEmails(t) \/ Deliver(t))

-----------------------------------------------------------------------------
\* Another client, or a sender

\* An email arrives, is read or unread, or is deleted.
Elsewhere(e) ==
  /\ Change
  /\ \/ \E b \in Box : e \notin known /\ server' = [server EXCEPT ![e] = [box |-> b, seen |-> FALSE]]
     \/ server[e] # None /\ server' = [server EXCEPT ![e].seen = ~@]
     \/ server[e] # None /\ server' = [server EXCEPT ![e] = None]
  /\ known' = known \cup {e}
  /\ gone' = IF server'[e] = None THEN gone \cup {e} ELSE gone
  /\ fresh' = FALSE /\ alone' = FALSE
  /\ UNCHANGED <<protocol, expunge, tables, screen, tasks, faults, raced>>

Next ==
  \/ SyncPersonalData
  \/ \E b \in Box : MailboxSelected(b)
  \/ \E e \in Email :
       \/ EmailSelected(e) \/ DeleteClicked(e) \/ Elsewhere(e)
       \/ \E read \in BOOLEAN : MarkReadClicked(e, read)
  \/ \E t \in Slot : Step(t)

Spec == Init /\ [][Next]_vars

\* Every task runs, its requests are answered, and the five minutes pass.
Fairness == WF_vars(SyncPersonalData) /\ \A t \in Slot : WF_vars(Step(t))

FairSpec == Spec /\ Fairness

-----------------------------------------------------------------------------
\* Properties

\* The table has what the server has: of the emails that are still there.
InStep == \A e \in Email : server[e] # None => rows[e] = Copy(e)

\* What was brought of an email is what the server has: over IMAP, where bringing
\* it has marked it as read, but for whether it is.
Agrees(copy, e) ==
  IF protocol = "imap"
  THEN server[e].seen /\ copy # None /\ copy.box = server[e].box /\ copy.body
  ELSE copy = JmapEmail(e)

\* After a sync that no other task, change or error fell into, and until
\* something changes, the table agrees with the server, whatever ran before,
\* and so does the list, except for an email whose text was opened: it was
\* replaced by an answer that has nothing but the text.
FreshAfterSync ==
  fresh => \A e \in Email : server[e] # None =>
    /\ Agrees(rows[e], e)
    /\ list[e] # None /\ list[e].box # None => Agrees(list[e], e)

\* An email that is deleted here does not come back: a row without an email is
\* left only where another client deleted it, or where it was deleted while
\* emails were being fetched.
DeletedStaysDeleted ==
  Running = {} => \A e \in Email :
    rows[e] # None /\ server[e] = None => e \in gone \cup raced

\* Whatever overlapped, failed or was refused, the five-minute sync repairs it.
EventuallyInStep == <>[]InStep
=============================================================================
