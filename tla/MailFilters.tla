----------------------------- MODULE MailFilters -----------------------------
(***************************************************************************)
(* The Sieve scripts of an account: at the ManageSieve server, in the      *)
(* filters table and in the filter view.  Every command is a task with a   *)
(* connection of its own; when it has succeeded, the same task fetches all *)
(* scripts again over a second connection.  Tasks overlap, and so do their *)
(* saves.  A script is the sequence of its lines.                          *)
(***************************************************************************)
EXTENDS Naturals, Sequences, FiniteSets

CONSTANTS Name, None,
          Script,     \* the scripts there are: sequences of lines
          BlockLine,  \* the lines in which a block is opened
          Slot,       \* how many tasks run at once
          MaxChanges, \* how often the user or another client changes something
          MaxFaults   \* how many requests fail

VARIABLES
  scripts,  \* each script at the server, or None
  active,   \* the active one, or None
  rows,     \* the filters table
  filters,  \* mail_state.filters
  selected, \* mail_state.selected_filter
  editor,   \* filter_name and filter_content while editing_filter, or None
  tasks, changes, faults,
  fresh,    \* the last fetch was disturbed by nothing, and nothing changed since
  alone     \* nothing disturbs the task that is running

server == <<scripts, active>>
screen == <<filters, selected, editor>>
vars == <<server, rows, screen, tasks, changes, faults, fresh, alone>>

NoFilters == [n \in Name |-> None]

Init ==
  /\ scripts \in [Name -> Script \cup {None}]
  /\ active \in {None} \cup {n \in Name : scripts[n] # None}
  /\ rows = NoFilters
  /\ filters = NoFilters /\ selected = None /\ editor = None
  /\ tasks = [t \in Slot |-> None]
  /\ changes = 0 /\ faults = 0
  /\ fresh = FALSE /\ alone = FALSE

-----------------------------------------------------------------------------
\* What GETSCRIPT's answer becomes.  read_response puts the literal, the script,
\* behind its marker, so its first line stands on the marker's line ...
Response(script) == [i \in DOMAIN script |-> [text |-> script[i], marked |-> i = 1]]

\* ... and extract_literal takes the rest of the first line it finds a marker in:
\* the marker has to be the last brace of its line.
Extracted(script) ==
  LET found == SelectSeq(Response(script), LAMBDA l : l.marked /\ l.text \notin BlockLine)
  IN  IF found = <<>> THEN None ELSE << Head(found).text >>

-----------------------------------------------------------------------------
\* The view

Running == {t \in Slot : tasks[t] # None}

Change == changes < MaxChanges /\ changes' = changes + 1

Begin(op, name, script) ==
  /\ \E t \in Slot \ Running :
       tasks' = [tasks EXCEPT ![t] =
         [op |-> op, name |-> name, script |-> script,
          at |-> IF op = "fetch" THEN "list" ELSE "command",
          todo |-> {}, active |-> None, got |-> NoFilters]]
  /\ alone' = (Running = {})

FiltersClicked ==
  /\ Begin("fetch", None, None)
  /\ UNCHANGED <<server, rows, screen, changes, faults, fresh>>

FilterSelected(n) ==
  /\ filters[n] # None
  /\ selected' = [name |-> n, filter |-> filters[n]]
  /\ editor' = None
  /\ UNCHANGED <<server, rows, filters, tasks, changes, faults, fresh, alone>>

\* The button that says "Edit" sends it too: the fields are empty either way.
NewFilter ==
  /\ selected' = None
  /\ editor' = [name |-> None, script |-> None]
  /\ UNCHANGED <<server, rows, filters, tasks, changes, faults, fresh, alone>>

\* FilterNameChanged and FilterContentChanged, up to what is saved.
Type(n, s) ==
  /\ editor # None
  /\ editor' = [name |-> n, script |-> s]
  /\ UNCHANGED <<server, rows, filters, selected, tasks, changes, faults, fresh, alone>>

CancelFilterEdit ==
  /\ editor # None
  /\ editor' = None
  /\ UNCHANGED <<server, rows, filters, selected, tasks, changes, faults, fresh, alone>>

SaveFilter ==
  /\ Change
  /\ editor # None /\ editor.name # None
  /\ Begin("put", editor.name, editor.script)
  /\ editor' = None
  /\ UNCHANGED <<server, rows, filters, selected, faults, fresh>>

DeleteFilter ==
  /\ Change
  /\ selected # None
  /\ Begin("delete", selected.name, None)
  /\ selected' = None /\ editor' = None
  /\ UNCHANGED <<server, rows, filters, faults, fresh>>

ActivateFilter ==
  /\ Change
  /\ selected # None
  /\ Begin("activate", selected.name, None)
  /\ UNCHANGED <<server, rows, screen, faults, fresh>>

\* A sync of the mail finishes: load_personal_data_from_db.
Reload ==
  /\ filters' = rows
  /\ UNCHANGED <<server, rows, selected, editor, tasks, changes, faults, fresh, alone>>

-----------------------------------------------------------------------------
\* A task

Becomes(t, task) == tasks' = [tasks EXCEPT ![t] = task]

\* A request is answered, or ends the task: before or after the server did what
\* was asked.
Outcome == {"ok", "error", "lost"}

Answered(outcome) ==
  /\ outcome # "ok" => faults < MaxFaults
  /\ faults' = IF outcome = "ok" THEN faults ELSE faults + 1

\* PUTSCRIPT, DELETESCRIPT (refused for the active script) or SETACTIVE.
Refused(task) ==
  CASE task.op = "delete"   -> scripts[task.name] = None \/ active = task.name
    [] task.op = "activate" -> scripts[task.name] = None
    [] OTHER                -> FALSE

Command(t, outcome) ==
  LET task == tasks[t]
      done == outcome # "error" /\ ~Refused(task)
  IN  /\ task.at = "command"
      /\ scripts' = CASE done /\ task.op = "put"    -> [scripts EXCEPT ![task.name] = task.script]
                      [] done /\ task.op = "delete" -> [scripts EXCEPT ![task.name] = None]
                      [] OTHER                      -> scripts
      /\ active' = IF done /\ task.op = "activate" THEN task.name ELSE active
      /\ Becomes(t, IF done /\ outcome = "ok" THEN [task EXCEPT !.at = "list"] ELSE None)
      /\ fresh' = FALSE
      /\ UNCHANGED <<rows, screen>>

\* fetch_filters: LISTSCRIPTS, then GETSCRIPT for each; one error ends it.
ListScripts(t, outcome) ==
  LET names == {n \in Name : scripts[n] # None}
  IN  /\ tasks[t].at = "list"
      /\ Becomes(t, IF outcome # "ok" THEN None
                    ELSE [tasks[t] EXCEPT !.at = IF names = {} THEN "delete" ELSE "get",
                                          !.todo = names, !.active = active])
      /\ UNCHANGED <<server, rows, screen, fresh>>

GetScript(t, outcome) ==
  LET task == tasks[t]
  IN  /\ task.at = "get"
      /\ LET n == CHOOSE m \in task.todo : TRUE
             found == outcome = "ok" /\ scripts[n] # None /\ Extracted(scripts[n]) # None
         IN  Becomes(t, IF ~found THEN None ELSE
               [task EXCEPT !.todo = @ \ {n},
                            !.at = IF task.todo = {n} THEN "delete" ELSE "get",
                            !.got[n] = [script |-> Extracted(scripts[n]),
                                        active |-> task.active = n]])
      /\ UNCHANGED <<server, rows, screen, fresh>>

Request(t) ==
  \E outcome \in Outcome :
    /\ Answered(outcome)
    /\ Command(t, outcome) \/ ListScripts(t, outcome) \/ GetScript(t, outcome)
    /\ alone' = (alone /\ outcome = "ok")
    /\ UNCHANGED changes

Local == UNCHANGED <<server, changes, faults, alone>>

\* Mutant: no row is deleted.
KeepRows(t) ==
  /\ tasks[t].at = "delete"
  /\ Becomes(t, [tasks[t] EXCEPT !.at = "insert"])
  /\ UNCHANGED <<rows, screen, fresh>> /\ Local

\* save_filters deletes the rows of the account ...
DeleteRows(t) ==
  /\ tasks[t].at = "delete"
  /\ rows' = NoFilters
  /\ Becomes(t, [tasks[t] EXCEPT !.at = "insert"])
  /\ UNCHANGED <<screen, fresh>> /\ Local

\* ... and inserts the new ones, all or none: names are unique.
InsertRows(t) ==
  LET got == tasks[t].got
  IN  /\ tasks[t].at = "insert"
      /\ rows' = IF \E n \in Name : got[n] # None /\ rows[n] # None
                 THEN rows
                 ELSE [n \in Name |-> IF got[n] # None THEN got[n] ELSE rows[n]]
      /\ Becomes(t, [tasks[t] EXCEPT !.at = "done"])
      /\ UNCHANGED <<screen, fresh>> /\ Local

\* PersonalDataEvent::Filters: the selected filter is found again by its name.
Filters(t) ==
  LET got == tasks[t].got
  IN  /\ tasks[t].at = "done"
      /\ Becomes(t, None)
      /\ filters' = got
      /\ selected' = IF selected = None \/ got[selected.name] = None THEN None
                     ELSE [selected EXCEPT !.filter = got[selected.name]]
      /\ fresh' = alone
      /\ UNCHANGED <<rows, editor>> /\ Local

Step(t) == t \in Running /\ (Request(t) \/ DeleteRows(t) \/ InsertRows(t) \/ Filters(t))

\* Another client stores, removes or activates a script.
Elsewhere ==
  /\ Change
  /\ \E n \in Name :
       \/ \E s \in Script : scripts' = [scripts EXCEPT ![n] = s] /\ UNCHANGED active
       \/ n # active /\ scripts' = [scripts EXCEPT ![n] = None] /\ UNCHANGED active
       \/ scripts[n] # None /\ active' = n /\ UNCHANGED scripts
  /\ fresh' = FALSE /\ alone' = FALSE
  /\ UNCHANGED <<rows, screen, tasks, faults>>

Next ==
  \/ FiltersClicked \/ NewFilter \/ CancelFilterEdit \/ SaveFilter
  \/ DeleteFilter \/ ActivateFilter \/ Reload \/ Elsewhere
  \/ \E n \in Name : FilterSelected(n) \/ \E s \in Script : Type(n, s)
  \/ \E t \in Slot : Step(t)

Spec == Init /\ [][Next]_vars

-----------------------------------------------------------------------------
\* Properties

AtServer(n) ==
  IF scripts[n] = None THEN None
  ELSE [script |-> Extracted(scripts[n]), active |-> active = n]

\* After a task that no other one overlapped, while none runs, what is shown,
\* what is selected and what is stored is what the server has, up to what
\* GETSCRIPT's answer becomes: save_filters deletes and inserts in two
\* statements, and tasks that overlapped earlier leave nothing behind.
FiltersAsStored ==
  fresh /\ Running = {} =>
    /\ \A n \in Name : filters[n] = AtServer(n) /\ rows[n] = AtServer(n)
    /\ selected # None => selected.filter = AtServer(selected.name)
=============================================================================
