---------------------------- MODULE MailSync_proofs ----------------------------
(***************************************************************************)
(* MailSync for any mailboxes and emails, and any number of tasks, changes *)
(* and faults: a sync that nothing disturbs brings the table in step with  *)
(* the server, and an email that is deleted stays deleted.                 *)
(***************************************************************************)
EXTENDS MailSync, TLAPS

\* None stands for no email, no selection and a free slot, and is none of these.
NoneIsApart ==
  /\ None \notin Email
  /\ \A record : DOMAIN record \cap {"box", "op"} # {} => record # None

-----------------------------------------------------------------------------
\* Shapes

TaskOK(task) ==
  /\ DOMAIN task = {"op", "arg", "at", "todo", "got"}
  /\ task.got = [e \in Email |-> task.got[e]]
  /\ task.at = "boxes" => task.op = "sync"
  /\ task.at \in {"emails", "save"} => task.op \in {"sync", "fetch"}
  /\ task.op = "body" => task.arg \in Email

EmailOK(e) == server[e] # None => DOMAIN server[e] = {"box", "seen"} /\ server[e].box \in Box

ShapesOK ==
  /\ DOMAIN server = Email /\ DOMAIN rows = Email
  /\ \A e \in Email : EmailOK(e)
  /\ DOMAIN tasks = Slot
  /\ \A t \in Running : TaskOK(tasks[t])
  /\ fresh \in BOOLEAN /\ alone \in BOOLEAN

-----------------------------------------------------------------------------
\* What a task has fetched is what the server has.
UpToDate(task) ==
  /\ task.op \in {"sync", "fetch"} => \A e \in Email :
       task.got[e] # None => server[e] # None /\ Agrees(task.got[e], e)
  /\ task.op = "body" /\ task.at = "done" /\ task.arg \in Email =>
       IF protocol = "imap"
       THEN server[task.arg] # None /\ Agrees(task.got[task.arg], task.arg)
       ELSE task.got[task.arg] = JmapBody

RowsAgree == \A e \in Email : server[e] # None => Agrees(rows[e], e)

\* What a sync that is alone has of the mailboxes it is done with is all of them.
Whole(task) ==
  /\ task.op = "sync"
  /\ task.at \in {"emails", "save"} => \A e \in Email :
       server[e] # None /\ server[e].box \notin task.todo => Agrees(task.got[e], e)
  /\ task.at = "save" => task.todo = {}
  /\ task.at = "done" => RowsAgree

Shown == \A e \in Email :
  server[e] # None /\ list[e] # None /\ list[e].box # None => Agrees(list[e], e)

\* FreshAfterSync says nothing of the tasks, whose saves and events come later:
\* this is its inductive form.
FreshInv ==
  /\ ShapesOK
  /\ fresh \/ alone => \A t \in Running : UpToDate(tasks[t])
  /\ alone => \A t, u \in Running : t = u /\ Whole(tasks[t])
  /\ fresh => RowsAgree /\ Shown

-----------------------------------------------------------------------------
\* Over IMAP nothing that is stored is loaded, so that nothing is listed: no
\* mailbox can be selected, and no email opened, marked, deleted or expunged.
NothingListed ==
  /\ protocol = "imap" =>
       /\ boxes = {} /\ selected = None /\ \A e \in Email : list[e] = None
       /\ \A t \in Running : tasks[t].op = "sync"
  /\ \A t \in Running : tasks[t].at # "expunge"

Absent(e) == rows[e] = None /\ \A t \in Fetching : tasks[t].got[e] = None

\* DeletedStaysDeleted speaks of moments in which no task runs: this is its
\* inductive form.  While an email is being deleted here, unless it was raced,
\* nothing is fetched.
DeletedInv ==
  /\ NothingListed
  /\ \A e \in Email \ (gone \cup raced) :
       /\ server[e] = None => Absent(e)
       /\ e \in Deleting => rows[e] = None /\ Fetching = {}

-----------------------------------------------------------------------------
\* Tasks

LEMMA BeginsTask ==
  ASSUME NoneIsApart, ShapesOK, NEW task, TaskOK(task), Begin(task)
  PROVE  \E t \in Slot \ Running :
           /\ DOMAIN tasks' = Slot /\ tasks'[t] = task
           /\ Running' = Running \cup {t}
           /\ \A u \in Running : tasks'[u] = tasks[u]
           /\ \A u \in Running' : TaskOK(tasks[u])'
<1>1. PICK t \in Slot \ Running : tasks' = [tasks EXCEPT ![t] = task]
  BY DEF Begin
<1>2. task # None
  BY DEF NoneIsApart, TaskOK
<1>3. /\ DOMAIN tasks' = Slot /\ tasks'[t] = task
      /\ Running' = Running \cup {t}
      /\ \A u \in Running : tasks'[u] = tasks[u]
  BY <1>1, <1>2 DEF ShapesOK, Running
<1> QED
  BY <1>3 DEF ShapesOK, TaskOK

LEMMA BecomesTask ==
  ASSUME NoneIsApart, ShapesOK, NEW t \in Running, NEW new, Becomes(t, new),
         new = None \/ TaskOK(new)
  PROVE  /\ DOMAIN tasks' = Slot /\ tasks'[t] = new
         /\ Running' = IF new = None THEN Running \ {t} ELSE Running
         /\ \A u \in Running \ {t} : tasks'[u] = tasks[u]
         /\ \A u \in Running' : TaskOK(tasks[u])'
<1>1. new # None => TaskOK(new)
  OBVIOUS
<1>2. /\ DOMAIN tasks' = Slot /\ tasks'[t] = new
      /\ Running' = IF new = None THEN Running \ {t} ELSE Running
      /\ \A u \in Running \ {t} : tasks'[u] = tasks[u]
  BY DEF Becomes, ShapesOK, Running
<1> QED
  BY <1>1, <1>2 DEF ShapesOK, TaskOK

\* A task as it begins.
LEMMA NewTask ==
  ASSUME NEW op, NEW arg, NEW at, NEW todo,
         at = "boxes" => op = "sync", at = "emails" => op = "fetch", at # "save",
         op = "body" => arg \in Email
  PROVE  LET task == Task(op, arg, at, todo)
         IN  TaskOK(task) /\ task.op = op /\ task.arg = arg /\ task.at = at /\ task.got = NoMail
BY DEF Task, TaskOK, NoMail

\* What the server has is the same while the server is.
LEMMA SameServer ==
  ASSUME UNCHANGED <<protocol, server>>, NEW e
  PROVE  EmailOK(e)' = EmailOK(e)
BY DEF EmailOK

\* The server is the same, but for what was read.
OnlyRead ==
  /\ UNCHANGED protocol
  /\ server' = server \/ \E es \in SUBSET Email :
       server' = Marked(es) /\ \A e \in es : server[e] # None

LEMMA ReadEmail ==
  ASSUME NoneIsApart, ShapesOK, OnlyRead, NEW e \in Email
  PROVE  /\ EmailOK(e)'
         /\ server'[e] = None <=> server[e] = None
         /\ server[e] # None => server'[e].box = server[e].box
         /\ server[e] # None /\ server[e].seen => server'[e].seen
<1>1. CASE server' = server
  BY <1>1 DEF ShapesOK, EmailOK
<1>2. ASSUME NEW es \in SUBSET Email, server' = Marked(es), \A f \in es : server[f] # None,
             protocol = "imap"
      PROVE  /\ EmailOK(e)'
             /\ server'[e] = None <=> server[e] = None
             /\ server[e] # None => server'[e].box = server[e].box
             /\ server[e] # None /\ server[e].seen => server'[e].seen
  <2>1. server'[e] = IF e \in es THEN [server[e] EXCEPT !.seen = TRUE] ELSE server[e]
    BY <1>2 DEF Marked
  <2>2. CASE e \notin es
    BY <2>1, <2>2 DEF ShapesOK, EmailOK
  <2>3. CASE e \in es
    <3>1. DOMAIN server[e] = {"box", "seen"} /\ server[e].box \in Box /\ server[e] # None
      BY <1>2, <2>3 DEF ShapesOK, EmailOK
    <3>2. server'[e] = [server[e] EXCEPT !.seen = TRUE]
      BY <2>1, <2>3
    <3>3. DOMAIN server'[e] = {"box", "seen"} /\ server'[e].box = server[e].box /\ server'[e].seen
      BY <3>1, <3>2
    <3> QED
      BY <3>1, <3>3 DEF NoneIsApart, EmailOK
  <2> QED
    BY <2>2, <2>3
<1>3. protocol # "imap" => server' = server
  BY DEF OnlyRead, Marked
<1> QED
  BY <1>1, <1>2, <1>3 DEF OnlyRead

LEMMA ReadMail ==
  ASSUME NoneIsApart, ShapesOK, OnlyRead
  PROVE  /\ DOMAIN server' = Email /\ \A e \in Email : EmailOK(e)'
         /\ \A e \in Email : server'[e] = None <=> server[e] = None
         /\ protocol # "imap" => server' = server
<1>1. DOMAIN server' = Email /\ (protocol # "imap" => server' = server)
  BY DEF OnlyRead, Marked, ShapesOK
<1> QED
  BY <1>1, ReadEmail

\* What agrees with the server still does.
LEMMA StillUpToDate ==
  ASSUME NoneIsApart, ShapesOK, OnlyRead, NEW u, tasks'[u] = tasks[u], UpToDate(tasks[u])
  PROVE  UpToDate(tasks[u])'
BY ReadEmail, ReadMail DEF OnlyRead, UpToDate, Agrees, JmapEmail, JmapBody

LEMMA AgreesIsEmail ==
  ASSUME NoneIsApart, NEW e, NEW copy, Agrees(copy, e)
  PROVE  copy # None
<1>1. protocol # "imap" => DOMAIN copy = {"box", "seen", "body"}
  BY DEF Agrees, JmapEmail
<1> QED
  BY <1>1 DEF NoneIsApart, Agrees

LEMMA AnswerIsEmail ==
  ASSUME NoneIsApart, NEW e, NEW after
  PROVE  Answer(e, after) # None
<1>1. DOMAIN Answer(e, after) = {"box", "seen", "body"}
  BY DEF Answer, Copy, JmapEmail, ImapEmail
<1> QED
  BY <1>1 DEF NoneIsApart

\* What is answered of an email is a copy of it, which it is marked for.
LEMMA AnswerAgrees ==
  ASSUME NoneIsApart, ShapesOK, NEW es \in SUBSET Email, NEW e \in es, server[e] # None,
         server' = Marked(es), UNCHANGED protocol, NEW after \in BOOLEAN, NEW copy,
         copy = Answer(e, after)
  PROVE  Agrees(copy, e)'
<1>1. CASE protocol = "imap"
  <2>1. server'[e] = [server[e] EXCEPT !.seen = TRUE] /\ DOMAIN server[e] = {"box", "seen"}
    BY <1>1 DEF Marked, ShapesOK, EmailOK
  <2>2. server'[e].seen /\ server'[e].box = server[e].box
    BY <2>1
  <2>3. DOMAIN copy = {"box", "seen", "body"} /\ copy.box = server[e].box /\ copy.body
    BY <1>1 DEF Answer, Copy, ImapEmail
  <2> QED
    BY <1>1, <2>2, <2>3 DEF NoneIsApart, Agrees
<1>2. CASE protocol # "imap"
  BY <1>2 DEF Marked, Answer, Copy, Agrees, JmapEmail
<1> QED
  BY <1>1, <1>2

-----------------------------------------------------------------------------
\* Steps in general

\* While neither holds, only the shapes matter.
LEMMA Disturbed ==
  ASSUME ShapesOK', fresh' = FALSE, alone' = FALSE
  PROVE  FreshInv'
BY DEF FreshInv

LEMMA BeginFresh ==
  ASSUME NoneIsApart, FreshInv, NEW task, TaskOK(task), Begin(task),
         task.got = NoMail, task.at # "done", task.op = "sync" => task.at = "boxes",
         UNCHANGED <<protocol, server, rows, list, fresh>>
  PROVE  FreshInv'
<1>1. PICK t \in Slot \ Running :
        /\ DOMAIN tasks' = Slot /\ tasks'[t] = task
        /\ Running' = Running \cup {t}
        /\ \A u \in Running : tasks'[u] = tasks[u]
        /\ \A u \in Running' : TaskOK(tasks[u])'
  BY BeginsTask DEF FreshInv
<1>2. alone' = (task.op = "sync" /\ Running = {})
  BY DEF Begin
<1>3. ShapesOK'
  BY <1>1, <1>2, SameServer DEF FreshInv, ShapesOK
<1>4. ASSUME fresh' \/ alone', NEW u \in Running' PROVE UpToDate(tasks[u])'
  <2>1. CASE u = t
    BY <1>1, <2>1 DEF UpToDate, NoMail
  <2>2. CASE u # t
    <3>1. u \in Running /\ fresh
      BY <1>1, <1>2, <1>4, <2>2
    <3>2. UpToDate(tasks[u])
      BY <3>1 DEF FreshInv
    <3> QED
      BY <1>1, <3>1, <3>2, StillUpToDate DEF FreshInv, OnlyRead
  <2> QED
    BY <2>1, <2>2
<1>5. ASSUME alone', NEW u \in Running', NEW v \in Running' PROVE u = v /\ Whole(tasks[u])'
  <2>1. u = t /\ v = t /\ tasks'[u].op = "sync" /\ tasks'[u].at = "boxes"
    BY <1>1, <1>2, <1>5
  <2> QED
    BY <2>1 DEF Whole
<1>6. fresh' => RowsAgree' /\ Shown'
  BY DEF FreshInv, RowsAgree, Shown, Agrees, JmapEmail
<1> QED
  BY <1>3, <1>4, <1>5, <1>6 DEF FreshInv

\* A task goes on, or ends: nothing changes that is stored or listed, and at the
\* server only what is read.
LEMMA GoesOnFresh ==
  ASSUME NoneIsApart, FreshInv, NEW t \in Running, NEW new, Becomes(t, new),
         new = None \/ TaskOK(new), OnlyRead,
         UNCHANGED <<rows, list, fresh>>, alone' \in BOOLEAN, alone' => alone,
         UpToDate(tasks[t]) /\ new # None => UpToDate(tasks[t])',
         alone' /\ Whole(tasks[t]) /\ new # None => Whole(tasks[t])'
  PROVE  FreshInv'
<1>1. /\ DOMAIN tasks' = Slot /\ tasks'[t] = new
      /\ Running' = IF new = None THEN Running \ {t} ELSE Running
      /\ \A u \in Running \ {t} : tasks'[u] = tasks[u]
      /\ \A u \in Running' : TaskOK(tasks[u])'
  BY BecomesTask DEF FreshInv
<1>2. ShapesOK'
  BY <1>1, ReadMail DEF FreshInv, ShapesOK
<1>3. ASSUME fresh' \/ alone', NEW u \in Running' PROVE UpToDate(tasks[u])'
  <2>1. u \in Running /\ (u = t => new # None)
    BY <1>1
  <2>2. UpToDate(tasks[u]) /\ UpToDate(tasks[t])
    BY <1>3, <2>1 DEF FreshInv
  <2>3. CASE u = t
    BY <2>1, <2>2, <2>3
  <2>4. CASE u # t
    BY <1>1, <2>1, <2>2, <2>4, StillUpToDate DEF FreshInv
  <2> QED
    BY <2>3, <2>4
<1>4. ASSUME alone', NEW u \in Running', NEW v \in Running' PROVE u = v /\ Whole(tasks[u])'
  BY <1>1, <1>4 DEF FreshInv
<1>5. fresh' => RowsAgree' /\ Shown'
  BY ReadEmail, ReadMail DEF OnlyRead, FreshInv, RowsAgree, Shown, Agrees, JmapEmail
<1> QED
  BY <1>2, <1>3, <1>4, <1>5 DEF FreshInv

-----------------------------------------------------------------------------
\* FreshInv: the interface

LEMMA SyncPersonalDataFresh ==
  ASSUME NoneIsApart, FreshInv, SyncPersonalData
  PROVE  FreshInv'
<1> DEFINE task == Task("sync", None, "boxes", {})
<1>1. TaskOK(task) /\ task.op = "sync" /\ task.at = "boxes" /\ task.got = NoMail
  BY NewTask
<1>2. Begin(task) /\ UNCHANGED <<protocol, server, rows, list, fresh>>
  BY DEF SyncPersonalData, tables, screen
<1> HIDE DEF task
<1> QED
  BY <1>1, <1>2, BeginFresh

LEMMA MailboxSelectedFresh ==
  ASSUME NoneIsApart, FreshInv, NEW b, MailboxSelected(b)
  PROVE  FreshInv'
<1> DEFINE task == Task("fetch", None, "emails", {b})
<1>1. TaskOK(task) /\ task.op = "fetch" /\ task.at = "emails" /\ task.got = NoMail
  BY NewTask
<1>2. Begin(task) /\ UNCHANGED <<protocol, server, rows, list, fresh>>
  BY DEF MailboxSelected, tables
<1> HIDE DEF task
<1> QED
  BY <1>1, <1>2, BeginFresh

LEMMA UntouchedFresh ==
  ASSUME FreshInv, UNCHANGED <<protocol, server, rows, list, tasks, fresh, alone>>
  PROVE  FreshInv'
<1>1. Running' = Running
  BY DEF Running
<1>2. ShapesOK'
  BY <1>1, SameServer DEF FreshInv, ShapesOK, TaskOK
<1>3. \A u \in Running : (UpToDate(tasks[u]) => UpToDate(tasks[u])') /\ (Whole(tasks[u]) => Whole(tasks[u])')
  BY DEF UpToDate, Whole, RowsAgree, Agrees, JmapEmail, JmapBody
<1>4. (RowsAgree => RowsAgree') /\ (Shown => Shown')
  BY DEF RowsAgree, Shown, Agrees, JmapEmail
<1> QED
  BY <1>1, <1>2, <1>3, <1>4 DEF FreshInv

LEMMA EmailSelectedFresh ==
  ASSUME NoneIsApart, FreshInv, NEW e \in Email, EmailSelected(e)
  PROVE  FreshInv'
<1> DEFINE task == Task("body", e, "request", {})
<1>1. TaskOK(task) /\ task.op = "body" /\ task.at = "request" /\ task.got = NoMail
  BY NewTask
<1>2. UNCHANGED <<protocol, server, rows, list, fresh>> /\ (UNCHANGED <<tasks, alone>> \/ Begin(task))
  BY DEF EmailSelected, tables
<1> HIDE DEF task
<1> QED
  BY <1>1, <1>2, BeginFresh, UntouchedFresh

\* A change: the shapes stay.
LEMMA ClickedFresh ==
  ASSUME NoneIsApart, FreshInv, NEW op \in {"mark", "delete"}, NEW arg,
         Begin(Task(op, arg, "request", {})), fresh' = FALSE, UNCHANGED <<protocol, server>>,
         DOMAIN rows' = DOMAIN rows
  PROVE  FreshInv'
<1> DEFINE task == Task(op, arg, "request", {})
<1>1. TaskOK(task) /\ task.op = op
  BY NewTask
<1> HIDE DEF task
<1>2. alone' = FALSE
  BY <1>1 DEF Begin, task
<1>3. Begin(task)
  BY DEF task
<1>4. DOMAIN tasks' = Slot /\ \A u \in Running' : TaskOK(tasks[u])'
  BY <1>1, <1>3, BeginsTask DEF FreshInv
<1>5. ShapesOK'
  BY <1>2, <1>4, SameServer DEF FreshInv, ShapesOK
<1> QED
  BY <1>2, <1>5, Disturbed

-----------------------------------------------------------------------------
\* FreshInv: the requests

LEMMA FetchMailboxesFresh ==
  ASSUME NoneIsApart, FreshInv, NEW t \in Running, NEW outcome, FetchMailboxes(t, outcome),
         UNCHANGED protocol, alone' \in BOOLEAN, alone' => alone /\ outcome = "ok"
  PROVE  FreshInv'
<1> DEFINE task == tasks[t]
           got == IF outcome = "ok" THEN Box ELSE {}
           new == [task EXCEPT !.at = IF got = {} THEN "save" ELSE "emails", !.todo = got]
<1>1. TaskOK(task) /\ task.at = "boxes" /\ task.op = "sync"
  BY DEF FreshInv, ShapesOK, FetchMailboxes, TaskOK
<1>2. Becomes(t, new) /\ UNCHANGED <<protocol, server, rows, list, fresh>>
  BY DEF FetchMailboxes, screen
<1>3. /\ TaskOK(new) /\ new.op = "sync" /\ new.got = task.got /\ new.todo = got
      /\ new.at \in {"save", "emails"} /\ (new.at = "save" => got = {})
  BY <1>1 DEF TaskOK
<1> HIDE DEF new
<1>4. tasks'[t] = new
  BY <1>2, <1>3, BecomesTask DEF FreshInv
<1>5. UpToDate(task) => UpToDate(tasks[t])'
  BY <1>1, <1>2, <1>3, <1>4 DEF UpToDate, Agrees, JmapEmail
<1>6. ASSUME outcome = "ok" PROVE Whole(tasks[t])'
  <2>1. \A e \in Email : server[e] # None => server[e].box \in Box
    BY DEF FreshInv, ShapesOK, EmailOK
  <2> QED
    BY <1>2, <1>3, <1>4, <1>6, <2>1 DEF Whole
<1> QED
  BY <1>2, <1>3, <1>5, <1>6, GoesOnFresh DEF OnlyRead

LEMMA FetchEmailsFresh ==
  ASSUME NoneIsApart, FreshInv, NEW t \in Running, NEW outcome, FetchEmails(t, outcome),
         UNCHANGED protocol, alone' \in BOOLEAN, alone' => alone /\ outcome = "ok"
  PROVE  FreshInv'
<1> DEFINE task == tasks[t]
<1>1. TaskOK(task) /\ task.at = "emails" /\ task.op \in {"sync", "fetch"} /\ ShapesOK
  BY DEF FreshInv, ShapesOK, FetchEmails, TaskOK
<1>2. UNCHANGED <<rows, list, fresh>>
  BY DEF FetchEmails, tables, screen
<1>3. PICK b \in task.todo, sent \in SUBSET Email, got \in SUBSET Email, after \in SUBSET Email :
        /\ Sent(b, outcome, sent, got) /\ server' = Marked(sent)
        /\ \/ outcome # "ok" /\ Becomes(t, None)
           \/ Becomes(t, [task EXCEPT
                !.todo = task.todo \ {b},
                !.at   = IF task.todo \ {b} = {} THEN "save" ELSE "emails",
                !.got  = Over(Answers(got, after), @)])
  BY DEF FetchEmails
<1> DEFINE new == [task EXCEPT
             !.todo = task.todo \ {b},
             !.at   = IF task.todo \ {b} = {} THEN "save" ELSE "emails",
             !.got  = Over(Answers(got, after), @)]
<1>4. /\ DOMAIN new = DOMAIN task /\ new.op = task.op /\ new.todo = task.todo \ {b}
      /\ new.at = (IF task.todo \ {b} = {} THEN "save" ELSE "emails")
      /\ new.got = Over(Answers(got, after), task.got)
  BY <1>1 DEF TaskOK
<1> HIDE DEF new
<1>5. TaskOK(new)
  <2>1. new.got = [e \in Email |-> new.got[e]]
    BY <1>1, <1>4 DEF TaskOK, Over
  <2> QED
    BY <1>1, <1>4, <2>1 DEF TaskOK
<1>6. /\ got \subseteq sent /\ \A e \in sent : server[e] # None /\ server[e].box = b
      /\ outcome = "ok" => \A e \in Email : server[e] # None /\ server[e].box = b => e \in got
  BY <1>3 DEF Sent, InBox
<1>7. OnlyRead
  BY <1>3, <1>6 DEF OnlyRead
<1>8. CASE Becomes(t, None)
  BY <1>2, <1>7, <1>8, GoesOnFresh
<1>9. CASE Becomes(t, new)
  <2>1. tasks'[t] = new
    BY <1>1, <1>5, <1>9, BecomesTask
  <2>2. ASSUME NEW e \in got
        PROVE  Agrees(tasks[t].got[e], e)' /\ server'[e] # None
    <3>1. PICK copy : copy = Answer(e, e \in after)
      OBVIOUS
    <3>2. Agrees(copy, e)'
      <4>1. CASE e \in after
        <5>1. copy = Answer(e, TRUE)
          BY <3>1, <4>1 DEF Answer
        <5> QED
          BY <1>1, <1>3, <1>6, <5>1, AnswerAgrees
      <4>2. CASE e \notin after
        <5>1. copy = Answer(e, FALSE)
          BY <3>1, <4>2 DEF Answer
        <5> QED
          BY <1>1, <1>3, <1>6, <5>1, AnswerAgrees
      <4> QED
        BY <4>1, <4>2
    <3>3. tasks'[t].got[e] = copy
      <4>1. copy # None
        BY <1>1, <3>1, AnswerIsEmail
      <4> QED
        BY <1>4, <2>1, <3>1, <4>1 DEF Over, Answers
    <3>4. server'[e] # None
      BY <1>1, <1>6, <1>7, ReadEmail, ReadMail
    <3> QED
      BY <3>2, <3>3, <3>4 DEF Agrees, JmapEmail
  <2>3. \A e \in Email \ got : tasks'[t].got[e] = task.got[e]
    BY <1>4, <2>1 DEF Over, Answers
  <2>4. ASSUME UpToDate(task) PROVE UpToDate(tasks[t])'
    <3>1. ASSUME NEW e \in Email, tasks'[t].got[e] # None
          PROVE  server'[e] # None /\ Agrees(tasks[t].got[e], e)'
      <4>1. CASE e \in got
        BY <2>2, <4>1
      <4>2. CASE e \notin got
        <5>1. server[e] # None /\ Agrees(task.got[e], e)
          BY <1>1, <2>3, <2>4, <3>1, <4>2 DEF UpToDate
        <5> QED
          BY <1>1, <1>7, <2>3, <4>2, <5>1, ReadEmail, ReadMail DEF Agrees, JmapEmail, OnlyRead
      <4> QED
        BY <4>1, <4>2
    <3> QED
      BY <1>1, <1>4, <2>1, <3>1 DEF UpToDate
  <2>5. ASSUME Whole(task), outcome = "ok" PROVE Whole(tasks[t])'
    <3>1. ASSUME NEW e \in Email, server'[e] # None, server'[e].box \notin tasks'[t].todo
          PROVE  Agrees(tasks[t].got[e], e)'
      <4>1. server[e] # None /\ server[e].box \notin task.todo \ {b}
        BY <1>1, <1>4, <1>7, <2>1, <3>1, ReadEmail, ReadMail
      <4>2. CASE e \in got
        BY <2>2, <4>2
      <4>3. CASE e \notin got
        <5>1. Agrees(task.got[e], e)
          BY <1>1, <1>6, <2>5, <4>1, <4>3 DEF Whole
        <5> QED
          BY <1>1, <1>7, <2>3, <4>1, <4>3, <5>1, ReadEmail, ReadMail DEF Agrees, JmapEmail, OnlyRead
      <4> QED
        BY <4>2, <4>3
    <3> QED
      BY <1>4, <2>1, <2>5, <3>1 DEF Whole
  <2> QED
    BY <1>2, <1>5, <1>7, <1>9, <2>4, <2>5, GoesOnFresh
<1> QED
  BY <1>3, <1>8, <1>9 DEF new

LEMMA FetchBodyFresh ==
  ASSUME NoneIsApart, FreshInv, NEW t \in Running, NEW outcome, FetchBody(t, outcome),
         UNCHANGED protocol, alone' \in BOOLEAN, alone' => alone
  PROVE  FreshInv'
<1> DEFINE task == tasks[t]
<1>1. TaskOK(task) /\ task.op = "body" /\ ShapesOK
  BY DEF FreshInv, ShapesOK, FetchBody
<1> PICK e \in Email : e = task.arg
  BY <1>1 DEF TaskOK
<1>2. UNCHANGED <<rows, list, fresh>>
  BY DEF FetchBody, tables, screen
<1>3. ~Whole(task)
  BY <1>1 DEF Whole
<1>4. OnlyRead
  <2>1. server' = server \/ (server[e] # None /\ server' = Marked({e}))
    BY DEF FetchBody
  <2> QED
    BY <2>1 DEF OnlyRead
<1>5. CASE Becomes(t, None)
  BY <1>2, <1>4, <1>5, GoesOnFresh
<1>6. CASE ~Becomes(t, None)
  <2>1. PICK after \in BOOLEAN : /\ server[e] # None /\ server' = Marked({e})
          /\ Becomes(t, [task EXCEPT !.at = "done", !.got[e] = BodyAnswer(e, after)])
    BY <1>6 DEF FetchBody, Served
  <2> DEFINE new == [task EXCEPT !.at = "done", !.got[e] = BodyAnswer(e, after)]
  <2>2. /\ TaskOK(new) /\ new.op = "body" /\ new.arg = e
        /\ new.got = [task.got EXCEPT ![e] = BodyAnswer(e, after)]
    BY <1>1 DEF TaskOK
  <2> HIDE DEF new
  <2>3. tasks'[t] = new
    BY <1>1, <2>1, <2>2, BecomesTask DEF new
  <2>4. IF protocol = "imap"
        THEN server'[e] # None /\ Agrees(tasks[t].got[e], e)'
        ELSE tasks'[t].got[e] = JmapBody
    <3>1. tasks'[t].got[e] = BodyAnswer(e, after)
      BY <1>1, <2>2, <2>3 DEF TaskOK
    <3>2. CASE protocol = "imap"
      <4>1. PICK copy : copy = Answer(e, after)
        OBVIOUS
      <4>2. Agrees(copy, e)'
        BY <1>1, <2>1, <4>1, AnswerAgrees
      <4>3. server'[e] # None
        BY <1>1, <1>4, <2>1, ReadMail
      <4> QED
        BY <3>1, <3>2, <4>1, <4>2, <4>3 DEF Agrees, BodyAnswer
    <3> QED
      BY <3>1, <3>2 DEF BodyAnswer
  <2>5. UpToDate(tasks[t])'
    BY <2>2, <2>3, <2>4 DEF UpToDate, JmapBody
  <2> QED
    BY <1>2, <1>3, <1>4, <2>1, <2>2, <2>5, GoesOnFresh DEF new
<1> QED
  BY <1>5, <1>6

\* A request that changes the server, or asks it to.
LEMMA ChangesFresh ==
  ASSUME NoneIsApart, FreshInv, NEW t \in Running, NEW new, Becomes(t, new),
         new = None \/ TaskOK(new), DOMAIN server' = Email, \A e \in Email : EmailOK(e)',
         UNCHANGED tables, fresh' = FALSE, alone' = FALSE
  PROVE  FreshInv'
<1>1. DOMAIN tasks' = Slot /\ \A u \in Running' : TaskOK(tasks[u])'
  BY BecomesTask DEF FreshInv
<1>2. ShapesOK'
  BY <1>1 DEF FreshInv, ShapesOK, tables
<1> QED
  BY <1>2, Disturbed

LEMMA FinishesAs ==
  ASSUME NEW t, NEW outcome, Finish(t, outcome), TaskOK(tasks[t])
  PROVE  \E new : (new = None \/ TaskOK(new)) /\ Becomes(t, new)
<1> DEFINE goes == [tasks[t] EXCEPT !.at = "done"]
<1>1. TaskOK(goes)
  BY DEF TaskOK
<1>2. Becomes(t, None) \/ Becomes(t, goes)
  BY DEF Finish
<1> HIDE DEF goes
<1> QED
  BY <1>1, <1>2

LEMMA MarkEmailReadFresh ==
  ASSUME NoneIsApart, FreshInv, NEW t \in Running, NEW outcome, MarkEmailRead(t, outcome),
         alone' = FALSE
  PROVE  FreshInv'
<1>1. PICK new : (new = None \/ TaskOK(new)) /\ Becomes(t, new)
  BY FinishesAs DEF FreshInv, ShapesOK, MarkEmailRead
<1> DEFINE e == tasks[t].arg[1]
<1>2. \/ server' = server
      \/ server[e] # None /\ server' = [server EXCEPT ![e].seen = tasks[t].arg[2]]
  BY DEF MarkEmailRead
<1>3. DOMAIN server' = Email /\ \A f \in Email : EmailOK(f)'
  BY <1>2 DEF FreshInv, ShapesOK, EmailOK
<1> QED
  BY <1>1, <1>3, ChangesFresh DEF MarkEmailRead

LEMMA DestroyEmailFresh ==
  ASSUME NoneIsApart, FreshInv, NEW t \in Running, NEW outcome, DestroyEmail(t, outcome),
         alone' = FALSE
  PROVE  FreshInv'
<1>1. PICK new : (new = None \/ TaskOK(new)) /\ Becomes(t, new)
  BY FinishesAs DEF FreshInv, ShapesOK, DestroyEmail
<1>2. server' = server \/ server' = [server EXCEPT ![tasks[t].arg] = None]
  BY DEF DestroyEmail
<1>3. DOMAIN server' = Email /\ \A f \in Email : EmailOK(f)'
  BY <1>2 DEF FreshInv, ShapesOK, EmailOK
<1> QED
  BY <1>1, <1>3, ChangesFresh DEF DestroyEmail

LEMMA StoreDeletedFresh ==
  ASSUME NoneIsApart, FreshInv, NEW t \in Running, NEW outcome, StoreDeleted(t, outcome),
         alone' = FALSE
  PROVE  FreshInv'
<1> DEFINE goes == [tasks[t] EXCEPT !.at = "expunge"]
           new == IF outcome = "ok" THEN goes ELSE None
<1>1. TaskOK(goes)
  BY DEF FreshInv, ShapesOK, TaskOK
<1>2. Becomes(t, new) /\ server' = server
  BY DEF StoreDeleted
<1>3. DOMAIN server' = Email /\ \A f \in Email : EmailOK(f)'
  BY <1>2 DEF FreshInv, ShapesOK, EmailOK
<1> HIDE DEF goes
<1> QED
  BY <1>1, <1>2, <1>3, ChangesFresh DEF StoreDeleted

LEMMA ExpungeFresh ==
  ASSUME NoneIsApart, FreshInv, NEW t \in Running, NEW outcome, Expunge(t, outcome),
         alone' = FALSE
  PROVE  FreshInv'
<1>1. PICK new : (new = None \/ TaskOK(new)) /\ Becomes(t, new)
  BY FinishesAs DEF FreshInv, ShapesOK, Expunge
<1>2. DOMAIN server' = Email /\ \A f \in Email : server'[f] \in {None, server[f]}
  BY DEF Expunge
<1>3. \A f \in Email : EmailOK(f)'
  BY <1>2 DEF FreshInv, ShapesOK, EmailOK
<1> QED
  BY <1>1, <1>2, <1>3, ChangesFresh DEF Expunge

LEMMA RequestFresh ==
  ASSUME NoneIsApart, FreshInv, NEW t \in Running, Request(t)
  PROVE  FreshInv'
<1>1. PICK outcome \in Outcome :
        /\ \/ FetchMailboxes(t, outcome) \/ FetchEmails(t, outcome) \/ FetchBody(t, outcome)
           \/ MarkEmailRead(t, outcome) \/ DestroyEmail(t, outcome)
           \/ StoreDeleted(t, outcome) \/ Expunge(t, outcome)
        /\ alone' = (alone /\ outcome = "ok" /\ tasks[t].op \in {"sync", "fetch", "body"})
        /\ Unwatched
  BY DEF Request
<1>2. /\ UNCHANGED protocol /\ alone' \in BOOLEAN /\ (alone' => alone /\ outcome = "ok")
      /\ tasks[t].op \in {"mark", "delete"} => alone' = FALSE
  BY <1>1 DEF Unwatched, FreshInv, ShapesOK
<1>3. CASE FetchMailboxes(t, outcome)
  BY <1>2, <1>3, FetchMailboxesFresh
<1>4. CASE FetchEmails(t, outcome)
  BY <1>2, <1>4, FetchEmailsFresh
<1>5. CASE FetchBody(t, outcome)
  BY <1>2, <1>5, FetchBodyFresh
<1>6. CASE MarkEmailRead(t, outcome)
  BY <1>2, <1>6, MarkEmailReadFresh DEF MarkEmailRead
<1>7. CASE DestroyEmail(t, outcome)
  BY <1>2, <1>7, DestroyEmailFresh DEF DestroyEmail
<1>8. CASE StoreDeleted(t, outcome)
  BY <1>2, <1>8, StoreDeletedFresh DEF StoreDeleted
<1>9. CASE Expunge(t, outcome)
  BY <1>2, <1>9, ExpungeFresh DEF Expunge
<1> QED
  BY <1>1, <1>3, <1>4, <1>5, <1>6, <1>7, <1>8, <1>9

-----------------------------------------------------------------------------
\* FreshInv: what a task saves, and what it ends with

LEMMA SaveEmailsFresh ==
  ASSUME NoneIsApart, FreshInv, NEW t \in Running, SaveEmails(t)
  PROVE  FreshInv'
<1> DEFINE task == tasks[t]
           new == [task EXCEPT !.at = "done"]
<1>1. TaskOK(task) /\ task.at = "save" /\ task.op \in {"sync", "fetch"}
  BY DEF FreshInv, ShapesOK, SaveEmails, TaskOK
<1>2. /\ Becomes(t, new) /\ rows' = Over(task.got, rows)
      /\ UNCHANGED <<protocol, server, list, fresh, alone>>
  BY DEF SaveEmails, screen, Unwatched
<1>3. TaskOK(new) /\ new # None /\ new.op = task.op /\ new.at = "done" /\ new.got = task.got
  BY <1>1 DEF TaskOK, NoneIsApart
<1> HIDE DEF new
<1>4. /\ DOMAIN tasks' = Slot /\ tasks'[t] = new /\ Running' = Running
      /\ \A u \in Running \ {t} : tasks'[u] = tasks[u]
      /\ \A u \in Running' : TaskOK(tasks[u])'
  BY <1>2, <1>3, BecomesTask DEF FreshInv
<1>5. ShapesOK'
  BY <1>2, <1>4, SameServer DEF FreshInv, ShapesOK, Over
<1>6. ASSUME fresh \/ alone, NEW u \in Running PROVE UpToDate(tasks[u])'
  <2>1. UpToDate(tasks[u]) /\ UpToDate(task)
    BY <1>6 DEF FreshInv
  <2>2. CASE u = t
    BY <1>1, <1>2, <1>3, <1>4, <2>1, <2>2 DEF UpToDate, Agrees, JmapEmail
  <2>3. CASE u # t
    BY <1>2, <1>4, <2>1, <2>3, StillUpToDate DEF FreshInv, OnlyRead
  <2> QED
    BY <2>2, <2>3
<1>7. ASSUME UpToDate(task), RowsAgree \/ Whole(task) PROVE RowsAgree'
  <2>1. \A e \in Email : server[e] # None =>
          /\ task.got[e] # None => Agrees(task.got[e], e)
          /\ task.got[e] = None => Agrees(rows[e], e)
    BY <1>1, <1>7, AgreesIsEmail DEF UpToDate, Whole, RowsAgree
  <2> QED
    BY <1>2, <2>1 DEF RowsAgree, Over, Agrees, JmapEmail
<1>8. ASSUME alone, NEW u \in Running, NEW v \in Running PROVE u = v /\ Whole(tasks[u])'
  <2>1. u = t /\ u = v /\ Whole(task) /\ UpToDate(task)
    BY <1>8 DEF FreshInv
  <2>2. RowsAgree'
    BY <1>7, <2>1
  <2> QED
    BY <1>3, <1>4, <2>1, <2>2 DEF Whole
<1>9. ASSUME fresh PROVE RowsAgree' /\ Shown'
  <2>1. UpToDate(task) /\ RowsAgree /\ Shown
    BY <1>9 DEF FreshInv
  <2> QED
    BY <1>2, <1>7, <2>1 DEF Shown, Agrees, JmapEmail
<1> QED
  BY <1>2, <1>4, <1>5, <1>6, <1>8, <1>9 DEF FreshInv

LEMMA DeliverFresh ==
  ASSUME NoneIsApart, FreshInv, NEW t \in Running, Deliver(t)
  PROVE  FreshInv'
<1> DEFINE task == tasks[t]
<1>1. TaskOK(task) /\ task.at = "done"
  BY DEF FreshInv, ShapesOK, Deliver
<1>2. /\ Becomes(t, None) /\ UNCHANGED <<protocol, server, rows, alone>>
      /\ fresh' = (fresh \/ (task.op = "sync" /\ alone))
  BY DEF Deliver, tables, Unwatched
<1>3. \/ task.op = "fetch" /\ list' = task.got
      \/ /\ task.op = "body"
         /\ list' = [e \in Email |-> IF e = task.arg /\ list[e] # None THEN task.got[e] ELSE list[e]]
      \/ task.op \notin {"fetch", "body"} /\ list' = Loaded
  BY DEF Deliver, LoadFromDb
<1>4. /\ DOMAIN tasks' = Slot /\ Running' = Running \ {t}
      /\ \A u \in Running \ {t} : tasks'[u] = tasks[u]
      /\ \A u \in Running' : TaskOK(tasks[u])'
  BY <1>2, BecomesTask DEF FreshInv
<1>5. ShapesOK'
  BY <1>2, <1>4, SameServer DEF FreshInv, ShapesOK
<1>6. alone => Running' = {}
  BY <1>4 DEF FreshInv
<1>7. ASSUME fresh' \/ alone', NEW u \in Running' PROVE UpToDate(tasks[u])'
  <2>1. tasks'[u] = tasks[u] /\ UpToDate(tasks[u])
    BY <1>2, <1>4, <1>6, <1>7 DEF FreshInv
  <2> QED
    BY <1>2, <2>1, StillUpToDate DEF FreshInv, OnlyRead
<1>8. ASSUME fresh' PROVE RowsAgree' /\ Shown'
  <2>1. RowsAgree /\ UpToDate(task)
    BY <1>1, <1>2, <1>8 DEF FreshInv, Whole
  <2>2. task.op \in {"fetch", "body"} => Shown
    BY <1>2, <1>8 DEF FreshInv
  <2>3. ASSUME NEW e \in Email, server[e] # None, list'[e] # None, list'[e].box # None
        PROVE  Agrees(list[e], e)'
    <3>1. CASE task.op = "fetch"
      BY <1>2, <1>3, <2>1, <2>3, <3>1 DEF UpToDate, Agrees, JmapEmail
    <3>2. CASE task.op = "body" /\ e = task.arg /\ list[e] # None
      <4>1. list'[e] = task.got[e] /\ (protocol # "imap" => task.got[e] = JmapBody)
        BY <1>1, <1>3, <2>1, <3>2 DEF UpToDate
      <4>2. protocol = "imap" => Agrees(task.got[e], e)
        BY <1>1, <2>1, <3>2 DEF UpToDate
      <4> QED
        BY <1>2, <2>3, <4>1, <4>2 DEF JmapBody, Agrees
    <3>3. CASE task.op = "body" /\ ~(e = task.arg /\ list[e] # None)
      <4>1. list'[e] = list[e]
        BY <1>3, <3>3
      <4> QED
        BY <1>2, <2>2, <2>3, <3>3, <4>1 DEF Shown, Agrees, JmapEmail
    <3>4. CASE task.op \notin {"fetch", "body"}
      BY <1>2, <1>3, <2>1, <2>3, <3>4 DEF Loaded, NoMail, RowsAgree, Agrees, JmapEmail
    <3> QED
      BY <3>1, <3>2, <3>3, <3>4
  <2> QED
    BY <1>2, <2>1, <2>3 DEF RowsAgree, Shown, Agrees, JmapEmail
<1> QED
  BY <1>2, <1>5, <1>6, <1>7, <1>8 DEF FreshInv

LEMMA ElsewhereFresh ==
  ASSUME FreshInv, NEW e \in Email, Elsewhere(e)
  PROVE  FreshInv'
<1>1. fresh' = FALSE /\ alone' = FALSE /\ UNCHANGED <<tasks, rows>>
  BY DEF Elsewhere, tables
<1>2. DOMAIN server' = Email /\ \A f \in Email : EmailOK(f)'
  BY DEF Elsewhere, FreshInv, ShapesOK, EmailOK
<1>3. ShapesOK'
  BY <1>1, <1>2 DEF FreshInv, ShapesOK, Running, TaskOK
<1> QED
  BY <1>1, <1>3, Disturbed

LEMMA NextFresh ==
  ASSUME NoneIsApart, FreshInv, [Next]_vars
  PROVE  FreshInv'
<1>1. CASE SyncPersonalData
  BY <1>1, SyncPersonalDataFresh
<1>2. CASE \E b \in Box : MailboxSelected(b)
  BY <1>2, MailboxSelectedFresh
<1>3. CASE \E e \in Email : EmailSelected(e)
  BY <1>3, EmailSelectedFresh
<1>4. CASE \E e \in Email : DeleteClicked(e) \/ \E read \in BOOLEAN : MarkReadClicked(e, read)
  BY <1>4, ClickedFresh DEF DeleteClicked, MarkReadClicked
<1>5. CASE \E e \in Email : Elsewhere(e)
  BY <1>5, ElsewhereFresh
<1>6. CASE \E t \in Slot : Step(t)
  BY <1>6, RequestFresh, SaveEmailsFresh, DeliverFresh DEF Step
<1>7. CASE UNCHANGED vars
  BY <1>7, UntouchedFresh DEF vars, tables, screen
<1> QED
  BY <1>1, <1>2, <1>3, <1>4, <1>5, <1>6, <1>7 DEF Next

LEMMA InitFresh ==
  ASSUME NoneIsApart, Init
  PROVE  FreshInv
<1>1. DOMAIN tasks = Slot /\ Running = {}
  BY DEF Init, Running
<1>2. DOMAIN server = Email /\ DOMAIN rows = Email /\ \A e \in Email : EmailOK(e)
  BY DEF Init, EmailOK, NoMail
<1> QED
  BY <1>1, <1>2 DEF Init, FreshInv, ShapesOK

\* After a sync that no other task, change or error fell into, and until
\* something changes, the table agrees with the server, and so does what is
\* listed, but for the emails whose text was opened; over IMAP, where fetching has
\* marked them all as read, but for whether they are: for any mailboxes, emails and
\* number of tasks, whatever overlapped, failed or was refused before.
THEOREM SyncedMailIsFresh == NoneIsApart => (Spec => []FreshAfterSync)
<1> SUFFICES ASSUME NoneIsApart PROVE Spec => []FreshAfterSync
  OBVIOUS
<1>1. FreshInv /\ [Next]_vars => FreshInv'
  BY NextFresh
<1>2. FreshInv => FreshAfterSync
  BY DEF FreshInv, FreshAfterSync, RowsAgree, Shown
<1> QED
  BY InitFresh, <1>1, <1>2, PTL DEF Spec

-----------------------------------------------------------------------------
\* DeletedInv: the interface

\* What begins and fetches has raced what is being deleted, and what is deleted
\* what is being fetched.
LEMMA BeginRaces ==
  ASSUME NoneIsApart, ShapesOK, NEW task, TaskOK(task), Begin(task)
  PROVE  /\ raced \subseteq raced'
         /\ Fetching' \subseteq Fetching \/ Deleting \subseteq raced'
         /\ task.op = "delete" => task.arg \in raced' \/ Fetching = {}
         /\ Deleting' \subseteq Deleting \cup (IF task.op = "delete" THEN {task.arg} ELSE {})
         /\ task.op = "delete" => Fetching' = Fetching
         /\ task.got = NoMail =>
              \A e \in Email : \A u \in Fetching' :
                tasks'[u].got[e] = None \/ (u \in Fetching /\ tasks'[u] = tasks[u])
         /\ \A u \in Running' : tasks'[u] = task \/ (u \in Running /\ tasks'[u] = tasks[u])
<1>1. PICK t \in Slot \ Running :
        /\ DOMAIN tasks' = Slot /\ tasks'[t] = task
        /\ Running' = Running \cup {t}
        /\ \A u \in Running : tasks'[u] = tasks[u]
  BY BeginsTask
<1>2. Fetching' = IF task.op \in {"sync", "fetch"} THEN Fetching \cup {t} ELSE Fetching
  BY <1>1 DEF Fetching
<1>3. Deleting' = IF task.op = "delete" THEN Deleting \cup {task.arg} ELSE Deleting
  BY <1>1 DEF Deleting
<1>4. /\ task.op \in {"sync", "fetch"} => raced' = raced \cup Deleting
      /\ task.op = "delete" /\ Fetching # {} => raced' = raced \cup {task.arg}
      /\ raced \subseteq raced'
  BY DEF Begin
<1>5. task.got = NoMail =>
        \A e \in Email : \A u \in Fetching' :
          tasks'[u].got[e] = None \/ (u \in Fetching /\ tasks'[u] = tasks[u])
  BY <1>1, <1>2 DEF Fetching, NoMail
<1> QED
  BY <1>1, <1>2, <1>3, <1>4, <1>5

LEMMA BeginListed ==
  ASSUME NoneIsApart, ShapesOK, NothingListed, NEW task, TaskOK(task), Begin(task),
         task.at # "expunge", UNCHANGED protocol,
         protocol = "imap" => task.op = "sync" /\ UNCHANGED <<boxes, selected, list>>
  PROVE  NothingListed'
<1>1. \A u \in Running' : tasks'[u] = task \/ (u \in Running /\ tasks'[u] = tasks[u])
  BY BeginRaces
<1> QED
  BY <1>1 DEF NothingListed

\* A task begins that deletes nothing, of what nobody sees change but what is listed.
LEMMA BeginDeleted ==
  ASSUME NoneIsApart, ShapesOK, DeletedInv, NEW task, TaskOK(task), Begin(task),
         task.got = NoMail, task.op # "delete", NothingListed',
         UNCHANGED <<server, gone>>,
         \A e \in Email : rows[e] = None => rows'[e] = None
  PROVE  DeletedInv'
<1>1. /\ raced \subseteq raced' /\ Deleting' \subseteq Deleting
      /\ Fetching' \subseteq Fetching \/ Deleting \subseteq raced'
      /\ \A e \in Email : \A u \in Fetching' :
           tasks'[u].got[e] = None \/ (u \in Fetching /\ tasks'[u] = tasks[u])
  BY BeginRaces
<1>2. ASSUME NEW e \in Email, e \notin gone' \cup raced'
      PROVE  /\ server'[e] = None => Absent(e)'
             /\ e \in Deleting' => rows'[e] = None /\ Fetching' = {}
  <2>1. /\ server[e] = None => Absent(e)
        /\ e \in Deleting => rows[e] = None /\ Fetching = {}
    BY <1>1, <1>2 DEF DeletedInv
  <2> QED
    BY <1>1, <1>2, <2>1 DEF Absent
<1> QED
  BY <1>2 DEF DeletedInv

LEMMA SyncPersonalDataDeleted ==
  ASSUME NoneIsApart, ShapesOK, DeletedInv, SyncPersonalData
  PROVE  DeletedInv'
<1> DEFINE task == Task("sync", None, "boxes", {})
<1>1. TaskOK(task) /\ task.op = "sync" /\ task.at = "boxes" /\ task.got = NoMail
  BY NewTask
<1>2. Begin(task) /\ UNCHANGED <<protocol, server, rows, boxes, selected, list, gone>>
  BY DEF SyncPersonalData, tables, screen
<1> HIDE DEF task
<1>3. NothingListed'
  BY <1>1, <1>2, BeginListed DEF DeletedInv
<1> QED
  BY <1>1, <1>2, <1>3, BeginDeleted

LEMMA MailboxSelectedDeleted ==
  ASSUME NoneIsApart, ShapesOK, DeletedInv, NEW b, MailboxSelected(b)
  PROVE  DeletedInv'
<1> DEFINE task == Task("fetch", None, "emails", {b})
<1>1. TaskOK(task) /\ task.op = "fetch" /\ task.at = "emails" /\ task.got = NoMail
  BY NewTask
<1>2. Begin(task) /\ UNCHANGED <<protocol, server, rows, gone>>
  BY DEF MailboxSelected, tables
<1> HIDE DEF task
<1>3. protocol # "imap"
  BY DEF MailboxSelected, DeletedInv, NothingListed
<1>4. NothingListed'
  BY <1>1, <1>2, <1>3, BeginListed DEF DeletedInv
<1> QED
  BY <1>1, <1>2, <1>4, BeginDeleted

\* Nothing but what is selected changes.
LEMMA UntouchedDeleted ==
  ASSUME DeletedInv, UNCHANGED <<server, rows, tasks, gone, raced>>, NothingListed'
  PROVE  DeletedInv'
<1>1. Running' = Running /\ Fetching' = Fetching /\ Deleting' = Deleting
  BY DEF Running, Fetching, Deleting
<1> QED
  BY <1>1 DEF DeletedInv, Absent

LEMMA EmailSelectedDeleted ==
  ASSUME NoneIsApart, ShapesOK, DeletedInv, NEW e \in Email, EmailSelected(e)
  PROVE  DeletedInv'
<1> DEFINE task == Task("body", e, "request", {})
<1>1. TaskOK(task) /\ task.op = "body" /\ task.at = "request" /\ task.got = NoMail
  BY NewTask
<1>2. /\ UNCHANGED <<protocol, server, rows, gone>>
      /\ UNCHANGED <<tasks, raced>> \/ Begin(task)
  BY DEF EmailSelected, tables
<1> HIDE DEF task
<1>3. protocol # "imap"
  BY DEF EmailSelected, DeletedInv, NothingListed
<1>4. CASE Begin(task)
  <2>1. NothingListed'
    BY <1>1, <1>2, <1>3, <1>4, BeginListed DEF DeletedInv
  <2> QED
    BY <1>1, <1>2, <1>4, <2>1, BeginDeleted
<1>5. CASE UNCHANGED <<tasks, raced>>
  <2>1. NothingListed'
    BY <1>2, <1>3, <1>5 DEF DeletedInv, NothingListed, Running
  <2> QED
    BY <1>2, <1>5, <2>1, UntouchedDeleted
<1> QED
  BY <1>2, <1>4, <1>5

LEMMA MarkReadClickedDeleted ==
  ASSUME NoneIsApart, ShapesOK, DeletedInv, NEW e \in Email, NEW read, MarkReadClicked(e, read)
  PROVE  DeletedInv'
<1> DEFINE task == Task("mark", <<e, read>>, "request", {})
<1>1. TaskOK(task) /\ task.op = "mark" /\ task.at = "request" /\ task.got = NoMail
  BY NewTask
<1>2. Begin(task) /\ UNCHANGED <<protocol, server, gone>>
  BY DEF MarkReadClicked
<1>3. \A f \in Email : rows[f] = None => rows'[f] = None
  BY DEF MarkReadClicked
<1>4. protocol # "imap"
  BY DEF MarkReadClicked, DeletedInv, NothingListed
<1> HIDE DEF task
<1>5. NothingListed'
  BY <1>1, <1>2, <1>4, BeginListed DEF DeletedInv
<1> QED
  BY <1>1, <1>2, <1>3, <1>5, BeginDeleted

LEMMA DeleteClickedDeleted ==
  ASSUME NoneIsApart, ShapesOK, DeletedInv, NEW e \in Email, DeleteClicked(e)
  PROVE  DeletedInv'
<1> DEFINE task == Task("delete", e, "request", {})
<1>1. /\ TaskOK(task) /\ task.op = "delete" /\ task.at = "request"
      /\ task.arg = e /\ task.got = NoMail
  BY NewTask
<1>2. /\ Begin(task) /\ UNCHANGED <<protocol, server, gone>>
      /\ rows' = [rows EXCEPT ![e] = None] /\ rows'[e] = None
  BY DEF DeleteClicked, ShapesOK
<1> HIDE DEF task
<1>3. NothingListed'
  <2>1. protocol # "imap"
    BY DEF DeleteClicked, DeletedInv, NothingListed, NoneIsApart
  <2> QED
    BY <1>1, <1>2, <2>1, BeginListed DEF DeletedInv
<1>4. /\ raced \subseteq raced' /\ Deleting' \subseteq Deleting \cup {e}
      /\ e \in raced' \/ Fetching = {}
      /\ Fetching' = Fetching
      /\ \A f \in Email : \A u \in Fetching' :
           tasks'[u].got[f] = None \/ (u \in Fetching /\ tasks'[u] = tasks[u])
  BY <1>1, <1>2, BeginRaces
<1>5. ASSUME NEW f \in Email, f \notin gone' \cup raced'
      PROVE  /\ server'[f] = None => Absent(f)'
             /\ f \in Deleting' => rows'[f] = None /\ Fetching' = {}
  <2>1. /\ server[f] = None => Absent(f)
        /\ f \in Deleting => rows[f] = None /\ Fetching = {}
    BY <1>2, <1>4, <1>5 DEF DeletedInv
  <2>2. rows[f] = None => rows'[f] = None
    BY <1>2
  <2>3. CASE f = e
    BY <1>2, <1>4, <1>5, <2>1, <2>2, <2>3 DEF Absent
  <2>4. CASE f # e
    BY <1>2, <1>4, <1>5, <2>1, <2>2, <2>4 DEF Absent
  <2> QED
    BY <2>3, <2>4
<1> QED
  BY <1>3, <1>5 DEF DeletedInv

-----------------------------------------------------------------------------
\* DeletedInv: the tasks

\* A task goes on, or ends: what it fetches next is what is there.
LEMMA GoesOnDeleted ==
  ASSUME NoneIsApart, ShapesOK, DeletedInv, NEW t \in Running, NEW new, Becomes(t, new),
         new = None \/ TaskOK(new),
         new # None => new.op = tasks[t].op /\ new.arg = tasks[t].arg,
         new # None /\ new.op \in {"sync", "fetch"} => \A e \in Email :
           new.got[e] # None => tasks[t].got[e] # None \/ server[e] # None,
         UNCHANGED <<gone, raced>>, NothingListed',
         \A e \in Email : rows[e] = None => rows'[e] = None,
         \A e \in Email : server'[e] = None => server[e] = None \/ e \in Deleting
  PROVE  DeletedInv'
<1>1. /\ DOMAIN tasks' = Slot /\ tasks'[t] = new
      /\ Running' = IF new = None THEN Running \ {t} ELSE Running
      /\ \A u \in Running \ {t} : tasks'[u] = tasks[u]
  BY BecomesTask
<1>2. Fetching' \subseteq Fetching /\ Deleting' \subseteq Deleting
  BY <1>1 DEF Fetching, Deleting
<1>3. ASSUME NEW e \in Email, e \notin gone' \cup raced'
      PROVE  /\ server'[e] = None => Absent(e)'
             /\ e \in Deleting' => rows'[e] = None /\ Fetching' = {}
  <2>1. /\ server[e] = None => Absent(e)
        /\ e \in Deleting => rows[e] = None /\ Fetching = {}
    BY <1>3 DEF DeletedInv
  <2>2. ASSUME server[e] = None, NEW u \in Fetching' PROVE tasks'[u].got[e] = None
    <3>1. u \in Fetching /\ tasks[u].got[e] = None
      BY <1>2, <2>1, <2>2 DEF Absent
    <3>2. CASE u = t
      BY <1>1, <2>2, <3>1, <3>2 DEF Fetching
    <3>3. CASE u # t
      BY <1>1, <3>1, <3>3 DEF Fetching
    <3> QED
      BY <3>2, <3>3
  <2>3. server'[e] = None => Absent(e)'
    BY <1>2, <2>1, <2>2 DEF Absent
  <2> QED
    BY <1>2, <2>1, <2>3
<1> QED
  BY <1>3 DEF DeletedInv

\* A request over IMAP, or one that lists nothing.
LEMMA NothingListedYet ==
  ASSUME NoneIsApart, ShapesOK, NothingListed, NEW t \in Running, NEW new, Becomes(t, new),
         new = None \/ TaskOK(new),
         new # None => new.op = tasks[t].op /\ new.at # "expunge",
         UNCHANGED <<protocol, boxes, selected, list>>
  PROVE  NothingListed'
<1>1. /\ DOMAIN tasks' = Slot /\ tasks'[t] = new
      /\ Running' = IF new = None THEN Running \ {t} ELSE Running
      /\ \A u \in Running \ {t} : tasks'[u] = tasks[u]
  BY BecomesTask
<1>2. \A u \in Running' : u \in Running /\ tasks'[u].op = tasks[u].op
  BY <1>1
<1>3. \A u \in Running' : tasks'[u].at # "expunge"
  BY <1>1 DEF NothingListed
<1> QED
  BY <1>2, <1>3 DEF NothingListed

LEMMA FetchMailboxesDeleted ==
  ASSUME NoneIsApart, ShapesOK, DeletedInv, NEW t \in Running, NEW outcome,
         FetchMailboxes(t, outcome), Unwatched
  PROVE  DeletedInv'
<1> DEFINE task == tasks[t]
           got == IF outcome = "ok" THEN Box ELSE {}
           new == [task EXCEPT !.at = IF got = {} THEN "save" ELSE "emails", !.todo = got]
<1>1. TaskOK(task) /\ task.op = "sync"
  BY DEF ShapesOK, FetchMailboxes, TaskOK
<1>2. /\ Becomes(t, new)
      /\ UNCHANGED <<protocol, server, rows, boxes, selected, list, gone, raced>>
  BY DEF FetchMailboxes, screen, Unwatched
<1>3. /\ TaskOK(new) /\ new.op = task.op /\ new.arg = task.arg /\ new.got = task.got
      /\ new.at \in {"save", "emails"}
  BY <1>1 DEF TaskOK
<1> HIDE DEF new
<1>4. NothingListed'
  BY <1>2, <1>3, NothingListedYet DEF DeletedInv
<1> QED
  BY <1>2, <1>3, <1>4, GoesOnDeleted

LEMMA FetchEmailsDeleted ==
  ASSUME NoneIsApart, ShapesOK, DeletedInv, NEW t \in Running, NEW outcome,
         FetchEmails(t, outcome), Unwatched
  PROVE  DeletedInv'
<1> DEFINE task == tasks[t]
<1>1. TaskOK(task) /\ task.op \in {"sync", "fetch"}
  BY DEF ShapesOK, FetchEmails, TaskOK
<1>2. UNCHANGED <<protocol, rows, boxes, selected, list, gone, raced>>
  BY DEF FetchEmails, tables, screen, Unwatched
<1>3. PICK b \in task.todo, sent \in SUBSET Email, got \in SUBSET Email, after \in SUBSET Email :
        /\ Sent(b, outcome, sent, got) /\ server' = Marked(sent)
        /\ \/ Becomes(t, None)
           \/ Becomes(t, [task EXCEPT
                !.todo = task.todo \ {b},
                !.at   = IF task.todo \ {b} = {} THEN "save" ELSE "emails",
                !.got  = Over(Answers(got, after), @)])
  BY DEF FetchEmails
<1> DEFINE new == [task EXCEPT
             !.todo = task.todo \ {b},
             !.at   = IF task.todo \ {b} = {} THEN "save" ELSE "emails",
             !.got  = Over(Answers(got, after), @)]
<1>4. /\ DOMAIN new = DOMAIN task /\ new.op = task.op /\ new.arg = task.arg
      /\ new.at \in {"save", "emails"} /\ new.got = Over(Answers(got, after), task.got)
  BY <1>1 DEF TaskOK
<1> HIDE DEF new
<1>5. TaskOK(new)
  <2>1. new.got = [e \in Email |-> new.got[e]]
    BY <1>1, <1>4 DEF TaskOK, Over
  <2> QED
    BY <1>1, <1>4, <2>1 DEF TaskOK
<1>6. got \subseteq sent /\ \A e \in sent : server[e] # None
  BY <1>3 DEF Sent, InBox
<1>7. OnlyRead
  BY <1>2, <1>3, <1>6 DEF OnlyRead
<1>8. \A e \in Email : new.got[e] # None => task.got[e] # None \/ server[e] # None
  BY <1>4, <1>6 DEF Over, Answers
<1>9. \A e \in Email : server'[e] = None => server[e] = None
  BY <1>7, ReadEmail, ReadMail
<1>10. CASE Becomes(t, None)
  <2>1. NothingListed'
    BY <1>2, <1>10, NothingListedYet DEF DeletedInv
  <2> QED
    BY <1>2, <1>9, <1>10, <2>1, GoesOnDeleted
<1>11. CASE Becomes(t, new)
  <2>1. NothingListed'
    BY <1>2, <1>4, <1>5, <1>11, NothingListedYet DEF DeletedInv
  <2> QED
    BY <1>2, <1>4, <1>5, <1>8, <1>9, <1>11, <2>1, GoesOnDeleted
<1> QED
  BY <1>3, <1>10, <1>11 DEF new

\* Over IMAP no text is fetched, since nothing is listed.
LEMMA FetchBodyDeleted ==
  ASSUME NoneIsApart, ShapesOK, DeletedInv, NEW t \in Running, NEW outcome,
         FetchBody(t, outcome), Unwatched
  PROVE  DeletedInv'
<1> DEFINE task == tasks[t]
           e == task.arg
<1>1. TaskOK(task) /\ task.op = "body" /\ protocol # "imap"
  BY DEF ShapesOK, FetchBody, DeletedInv, NothingListed
<1>2. UNCHANGED <<protocol, server, rows, boxes, selected, list, gone, raced>>
  BY <1>1 DEF FetchBody, Marked, tables, screen, Unwatched
<1>3. CASE Becomes(t, None)
  <2>1. NothingListed'
    BY <1>2, <1>3, NothingListedYet DEF DeletedInv
  <2> QED
    BY <1>2, <1>3, <2>1, GoesOnDeleted
<1>4. ASSUME NEW after \in BOOLEAN,
             Becomes(t, [task EXCEPT !.at = "done", !.got[e] = BodyAnswer(e, after)])
      PROVE  DeletedInv'
  <2> DEFINE new == [task EXCEPT !.at = "done", !.got[e] = BodyAnswer(e, after)]
  <2>1. TaskOK(new) /\ new.op = "body" /\ new.arg = task.arg /\ new.at = "done"
    BY <1>1 DEF TaskOK
  <2>2. Becomes(t, new)
    BY <1>4
  <2> HIDE DEF new
  <2>3. NothingListed'
    BY <1>1, <1>2, <2>1, <2>2, NothingListedYet DEF DeletedInv
  <2> QED
    BY <1>1, <1>2, <2>1, <2>2, <2>3, GoesOnDeleted
<1> QED
  BY <1>3, <1>4 DEF FetchBody

\* What a request that changes the server ends with: the task is done or over.
LEMMA FinishDeleted ==
  ASSUME NoneIsApart, ShapesOK, DeletedInv, NEW t \in Running, NEW outcome,
         Finish(t, outcome), tasks[t].op \in {"mark", "delete"},
         UNCHANGED <<tables, screen>>, Unwatched,
         \A e \in Email : server'[e] = None => server[e] = None \/ e \in Deleting
  PROVE  DeletedInv'
<1> DEFINE task == tasks[t]
           goes == [task EXCEPT !.at = "done"]
           new == IF outcome \in {"ok", "refused"} THEN goes ELSE None
<1>1. TaskOK(task) /\ Becomes(t, new)
  BY DEF ShapesOK, Finish
<1>2. TaskOK(goes) /\ goes.op = task.op /\ goes.arg = task.arg /\ goes.at = "done"
  BY <1>1 DEF TaskOK
<1>3. UNCHANGED <<protocol, rows, boxes, selected, list, gone, raced>>
  BY DEF tables, screen, Unwatched
<1> HIDE DEF goes
<1>4. NothingListed'
  BY <1>1, <1>2, <1>3, NothingListedYet DEF DeletedInv
<1> QED
  BY <1>1, <1>2, <1>3, <1>4, GoesOnDeleted

LEMMA MarkEmailReadDeleted ==
  ASSUME NoneIsApart, ShapesOK, DeletedInv, NEW t \in Running, NEW outcome,
         MarkEmailRead(t, outcome), Unwatched
  PROVE  DeletedInv'
<1> DEFINE e == tasks[t].arg[1]
<1>1. \/ server' = server
      \/ server[e] # None /\ server' = [server EXCEPT ![e].seen = tasks[t].arg[2]]
  BY DEF MarkEmailRead
<1>2. ASSUME NEW f \in Email, server'[f] = None PROVE server[f] = None
  <2>1. ASSUME server[f] # None, server' # server PROVE DOMAIN server'[f] = {"box", "seen"}
    BY <1>1, <2>1 DEF ShapesOK, EmailOK
  <2> QED
    BY <1>2, <2>1 DEF NoneIsApart
<1> QED
  BY <1>2, FinishDeleted DEF MarkEmailRead

LEMMA DestroyEmailDeleted ==
  ASSUME NoneIsApart, ShapesOK, DeletedInv, NEW t \in Running, NEW outcome,
         DestroyEmail(t, outcome), Unwatched
  PROVE  DeletedInv'
<1>1. tasks[t].arg \in Deleting
  BY DEF DestroyEmail, Deleting
<1>2. server' = server \/ server' = [server EXCEPT ![tasks[t].arg] = None]
  BY DEF DestroyEmail
<1>3. \A f \in Email : server'[f] = None => server[f] = None \/ f \in Deleting
  BY <1>1, <1>2 DEF ShapesOK
<1> QED
  BY <1>3, FinishDeleted DEF DestroyEmail

LEMMA NothingExpunged ==
  ASSUME NothingListed, NEW t \in Running, NEW outcome,
         StoreDeleted(t, outcome) \/ Expunge(t, outcome)
  PROVE  FALSE
BY DEF NothingListed, StoreDeleted, Expunge

LEMMA RequestDeleted ==
  ASSUME NoneIsApart, ShapesOK, DeletedInv, NEW t \in Running, Request(t)
  PROVE  DeletedInv'
<1>1. PICK outcome \in Outcome :
        /\ \/ FetchMailboxes(t, outcome) \/ FetchEmails(t, outcome) \/ FetchBody(t, outcome)
           \/ MarkEmailRead(t, outcome) \/ DestroyEmail(t, outcome)
           \/ StoreDeleted(t, outcome) \/ Expunge(t, outcome)
        /\ Unwatched
  BY DEF Request
<1> QED
  BY <1>1, FetchMailboxesDeleted, FetchEmailsDeleted, FetchBodyDeleted,
     MarkEmailReadDeleted, DestroyEmailDeleted, NothingExpunged DEF DeletedInv

LEMMA SaveEmailsDeleted ==
  ASSUME NoneIsApart, ShapesOK, DeletedInv, NEW t \in Running, SaveEmails(t)
  PROVE  DeletedInv'
<1> DEFINE task == tasks[t]
           new == [task EXCEPT !.at = "done"]
<1>1. TaskOK(task) /\ task.op \in {"sync", "fetch"} /\ t \in Fetching
  BY DEF ShapesOK, SaveEmails, TaskOK, Fetching
<1>2. /\ Becomes(t, new) /\ rows' = Over(task.got, rows)
      /\ UNCHANGED <<protocol, server, boxes, selected, list, gone, raced>>
  BY DEF SaveEmails, screen, Unwatched
<1>3. /\ TaskOK(new) /\ new.op = task.op /\ new.arg = task.arg /\ new.got = task.got
      /\ new.at = "done" /\ new # None
  BY <1>1 DEF TaskOK, NoneIsApart
<1> HIDE DEF new
<1>4. NothingListed'
  BY <1>2, <1>3, NothingListedYet DEF DeletedInv
<1>5. /\ DOMAIN tasks' = Slot /\ tasks'[t] = new /\ Running' = Running
      /\ \A u \in Running \ {t} : tasks'[u] = tasks[u]
  BY <1>2, <1>3, BecomesTask
<1>6. Fetching' = Fetching /\ Deleting' = Deleting
  BY <1>3, <1>5 DEF Fetching, Deleting
<1>7. \A u \in Fetching : tasks'[u].got = tasks[u].got
  BY <1>3, <1>5 DEF Fetching
<1>8. ASSUME NEW e \in Email, e \notin gone' \cup raced'
      PROVE  /\ server'[e] = None => Absent(e)'
             /\ e \in Deleting' => rows'[e] = None /\ Fetching' = {}
  <2>1. /\ server[e] = None => Absent(e)
        /\ e \in Deleting => Fetching = {}
    BY <1>2, <1>8 DEF DeletedInv
  <2>2. server[e] = None => task.got[e] = None /\ rows'[e] = None
    BY <1>1, <1>2, <2>1 DEF Absent, Over
  <2> QED
    BY <1>1, <1>2, <1>6, <1>7, <2>1, <2>2 DEF Absent
<1> QED
  BY <1>4, <1>8 DEF DeletedInv

LEMMA DeliverDeleted ==
  ASSUME NoneIsApart, ShapesOK, DeletedInv, NEW t \in Running, Deliver(t)
  PROVE  DeletedInv'
<1> DEFINE task == tasks[t]
<1>1. Becomes(t, None) /\ UNCHANGED <<protocol, server, rows, gone, raced>>
  BY DEF Deliver, tables, Unwatched
<1>2. Running' = Running \ {t} /\ \A u \in Running' : tasks'[u] = tasks[u]
  BY <1>1, BecomesTask
<1>3. ASSUME protocol = "imap"
      PROVE  boxes' = {} /\ selected' = None /\ \A e \in Email : list'[e] = None
  <2>1. task.op = "sync" /\ selected = None
    BY <1>3 DEF DeletedInv, NothingListed
  <2>2. LoadFromDb
    BY <2>1 DEF Deliver
  <2> QED
    BY <1>3, <2>1, <2>2 DEF LoadFromDb, Loaded, LoadedBoxes, NoMail
<1>4. NothingListed'
  BY <1>1, <1>2, <1>3 DEF DeletedInv, NothingListed
<1> QED
  BY <1>1, <1>4, GoesOnDeleted

LEMMA ElsewhereDeleted ==
  ASSUME NoneIsApart, ShapesOK, DeletedInv, NEW e \in Email, Elsewhere(e)
  PROVE  DeletedInv'
<1>1. UNCHANGED <<protocol, rows, boxes, selected, list, tasks, raced>>
  BY DEF Elsewhere, tables, screen
<1>2. Running' = Running /\ Fetching' = Fetching /\ Deleting' = Deleting
  BY <1>1 DEF Running, Fetching, Deleting
<1>3. /\ gone \subseteq gone' /\ (server'[e] = None => e \in gone')
      /\ \A f \in Email \ {e} : server'[f] = server[f]
  BY DEF Elsewhere, ShapesOK
<1>4. ASSUME NEW f \in Email, f \notin gone' \cup raced'
      PROVE  /\ server'[f] = None => Absent(f)'
             /\ f \in Deleting' => rows'[f] = None /\ Fetching' = {}
  <2>1. /\ server[f] = None => Absent(f)
        /\ f \in Deleting => rows[f] = None /\ Fetching = {}
    BY <1>1, <1>3, <1>4 DEF DeletedInv
  <2> QED
    BY <1>1, <1>2, <1>3, <1>4, <2>1 DEF Absent
<1>5. NothingListed'
  BY <1>1, <1>2 DEF DeletedInv, NothingListed
<1> QED
  BY <1>4, <1>5 DEF DeletedInv

LEMMA NextDeleted ==
  ASSUME NoneIsApart, ShapesOK, DeletedInv, [Next]_vars
  PROVE  DeletedInv'
<1>1. CASE SyncPersonalData
  BY <1>1, SyncPersonalDataDeleted
<1>2. CASE \E b \in Box : MailboxSelected(b)
  BY <1>2, MailboxSelectedDeleted
<1>3. CASE \E e \in Email : EmailSelected(e)
  BY <1>3, EmailSelectedDeleted
<1>4. CASE \E e \in Email : DeleteClicked(e)
  BY <1>4, DeleteClickedDeleted
<1>5. CASE \E e \in Email : \E read \in BOOLEAN : MarkReadClicked(e, read)
  BY <1>5, MarkReadClickedDeleted
<1>6. CASE \E e \in Email : Elsewhere(e)
  BY <1>6, ElsewhereDeleted
<1>7. CASE \E t \in Slot : Step(t)
  BY <1>7, RequestDeleted, SaveEmailsDeleted, DeliverDeleted DEF Step
<1>8. CASE UNCHANGED vars
  <2>1. UNCHANGED <<protocol, server, rows, boxes, selected, list, tasks, gone, raced>>
    BY <1>8 DEF vars, tables, screen
  <2>2. NothingListed'
    BY <2>1 DEF DeletedInv, NothingListed, Running
  <2> QED
    BY <2>1, <2>2, UntouchedDeleted
<1> QED
  BY <1>1, <1>2, <1>3, <1>4, <1>5, <1>6, <1>7, <1>8 DEF Next

LEMMA InitDeleted ==
  ASSUME Init
  PROVE  DeletedInv
<1>1. Running = {}
  BY DEF Init, Running
<1>2. Fetching = {} /\ Deleting = {}
  BY <1>1 DEF Fetching, Deleting
<1> QED
  BY <1>1, <1>2 DEF Init, DeletedInv, NothingListed, Absent, NoMail

\* An email that is deleted here does not come back: when no task runs, a row is
\* left of an email that is not at the server only where another client deleted
\* it, or where it was deleted while emails were being fetched.  Whatever failed
\* or was refused, for any mailboxes, emails and number of tasks.
THEOREM DeletedMailStaysDeleted == NoneIsApart => (Spec => []DeletedStaysDeleted)
<1> SUFFICES ASSUME NoneIsApart PROVE Spec => []DeletedStaysDeleted
  OBVIOUS
<1>1. Init => FreshInv /\ DeletedInv
  BY InitFresh, InitDeleted
<1>2. FreshInv /\ DeletedInv /\ [Next]_vars => FreshInv' /\ DeletedInv'
  BY NextFresh, NextDeleted DEF FreshInv
<1>3. DeletedInv => DeletedStaysDeleted
  BY DEF DeletedInv, DeletedStaysDeleted, Absent
<1> QED
  BY <1>1, <1>2, <1>3, PTL DEF Spec
=============================================================================
