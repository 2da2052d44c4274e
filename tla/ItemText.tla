------------------------------ MODULE ItemText ------------------------------
(***************************************************************************)
(* What becomes of an event, a task or a contact that is saved and listed  *)
(* again: written as iCalendar or vCard and parsed, or put into JMAP       *)
(* objects and read from them.  Every sync does the reading and every edit *)
(* the writing, so what the conversions lose is lost at the server.        *)
(*                                                                         *)
(* A text is a sequence of characters, a moment is seconds since a         *)
(* midnight, a line is its name and value.                                 *)
(***************************************************************************)
EXTENDS Integers, Sequences, SequencesExt

CONSTANTS Texts,    \* titles, descriptions, locations and notes
          Moments, None

VARIABLES
  way,   \* dav or jmap
  item,  \* as it is listed
  object, \* over JMAP, the event or task that the server has, or None
  first, \* the item as it was filled in and saved first
  made,  \* the object as it was before: another client's
  times  \* how often it was saved: nothing, once, again

vars == <<way, item, object, first, made, times>>

Newline == "nl"
Backslash == "\\"

Day == 86400

-----------------------------------------------------------------------------
\* Text values

RECURSIVE Replace(_, _, _)
\* str::replace: from the left, without overlaps.
Replace(text, from, to) ==
  IF Len(text) < Len(from) THEN text
  ELSE IF SubSeq(text, 1, Len(from)) = from
       THEN to \o Replace(SubSeq(text, Len(from) + 1, Len(text)), from, to)
       ELSE <<Head(text)>> \o Replace(Tail(text), from, to)

Escaped(text, char, letter) == Replace(text, <<char>>, <<Backslash, letter>>)

Unescaped(text, letter, char) == Replace(text, <<Backslash, letter>>, <<char>>)

\* Mutant: a backslash is not escaped.
EncodeBut(text) == Escaped(Escaped(Escaped(text, Newline, "n"), ",", ","), ";", ";")

EncodeIcsText(text) ==
  LET a == Escaped(text, Backslash, Backslash)
      b == Escaped(a, Newline, "n")
      c == Escaped(b, ",", ",")
  IN  Escaped(c, ";", ";")

DecodeIcsText(text) ==
  LET a == Unescaped(text, "n", Newline)
      b == Unescaped(a, "N", Newline)
      c == Unescaped(b, ",", ",")
      d == Unescaped(c, ";", ";")
  IN  Unescaped(d, Backslash, Backslash)

RECURSIVE Trimmed(_)
\* The end of a line that is trimmed before it is split into name and value.
Trimmed(text) ==
  IF text # <<>> /\ Last(text) = " " THEN Trimmed(Front(text)) ELSE text

Line(name, value) == [name |-> name, value |-> value]

TextLine(name, text) == Line(name, Trimmed(EncodeIcsText(text)))

\* The value of the last line of a name, for a parser that goes through all.
ValueOf(lines, name, default) ==
  LET of == SelectSeq(lines, LAMBDA l : l.name = name)
  IN  IF of = <<>> THEN default ELSE Last(of).value

TextOf(lines, name) == DecodeIcsText(ValueOf(lines, name, <<>>))

-----------------------------------------------------------------------------
\* Moments

\* format_datetime: eight digits, or with the time of day in UTC.
FormatDatetime(moment, allDay) == [date |-> moment \div Day, time |-> IF allDay THEN None ELSE moment % Day]

\* parse_datetime
ParseDatetime(value) == value.date * Day + (IF value.time = None THEN 0 ELSE value.time)

IsDate(value) == value.time = None

\* Rust divides towards zero.
Quotient(a, b) == IF a >= 0 THEN a \div b ELSE -((-a) \div b)
Remainder(a, b) == a - b * Quotient(a, b)

\* Mutant: minutes that are hours already.
AllMinutes(secs) ==
  <<<<Quotient(secs, 3600), "H">>, <<Quotient(secs, 60), "M">>, <<Remainder(secs, 60), "S">>>>

\* duration_to_iso: PT with hours, and with minutes and seconds as needed.
DurationToIso(secs) ==
  LET hours == Quotient(secs, 3600)
      mins  == Quotient(Remainder(secs, 3600), 60)
      s     == Remainder(secs, 60)
  IN  IF mins = 0 /\ s = 0 THEN <<<<hours, "H">>>>
      ELSE IF s = 0 THEN <<<<hours, "H">>, <<mins, "M">>>>
      ELSE <<<<hours, "H">>, <<mins, "M">>, <<s, "S">>>>

Unit == [H |-> 3600, M |-> 60, S |-> 1, D |-> Day]

\* parse_iso_duration: a minus sign is no part of a number.
ParseIsoDuration(parts) ==
  IF \E i \in DOMAIN parts : parts[i][1] < 0 THEN None
  ELSE FoldLeft(LAMBDA sum, part : sum + part[1] * Unit[part[2]], 0, parts)

-----------------------------------------------------------------------------
\* Events

EventLines(event) ==
  <<Line("DTSTART", FormatDatetime(event.start, event.allDay)),
    Line("DTEND", FormatDatetime(event.end, event.allDay)),
    TextLine("TEXT", event.text),
    Line("STATUS", IF event.status = "" THEN "CONFIRMED" ELSE event.status)>>

ParseEvent(lines) ==
  LET start == ValueOf(lines, "DTSTART", None)
  IN  [kind   |-> "event",
       text   |-> TextOf(lines, "TEXT"),
       start  |-> ParseDatetime(start),
       end    |-> ParseDatetime(ValueOf(lines, "DTEND", None)),
       allDay |-> IsDate(start),
       status |-> ValueOf(lines, "STATUS", "")]

\* What an update names: showWithoutTime only to set it.
EventToJmapJson(event) ==
  [text     |-> event.text,
   start    |-> FormatDatetime(event.start, event.allDay),
   duration |-> IF event.allDay THEN <<<<1, "D">>>> ELSE DurationToIso(event.end - event.start),
   status   |-> event.status]
  @@ (IF event.allDay THEN [timeless |-> TRUE] ELSE <<>>)

\* A duration that is not understood is an hour.
ParseJmapEvent(json) ==
  LET start    == ParseDatetime(json.start)
      duration == ParseIsoDuration(json.duration)
  IN  [kind   |-> "event",
       text   |-> json.text,
       start  |-> start,
       end    |-> start + (IF duration = None THEN 3600 ELSE duration),
       allDay |-> json.timeless,
       status |-> json.status]

-----------------------------------------------------------------------------
\* Tasks

TaskLines(task) ==
  (IF task.due = None THEN <<>> ELSE <<Line("DUE", FormatDatetime(task.due, task.allDay))>>)
    \o <<TextLine("TEXT", task.text),
         Line("STATUS", IF task.status = "" THEN "NEEDS-ACTION" ELSE task.status),
         Line("PERCENT-COMPLETE", task.percent)>>
    \o (IF task.completed = None THEN <<>>
        ELSE <<Line("COMPLETED", FormatDatetime(task.completed, FALSE))>>)

ParseTask(lines) ==
  LET due       == ValueOf(lines, "DUE", None)
      completed == ValueOf(lines, "COMPLETED", None)
  IN  [kind      |-> "task",
       text      |-> TextOf(lines, "TEXT"),
       due       |-> IF due = None THEN None ELSE ParseDatetime(due),
       allDay    |-> due # None /\ IsDate(due),
       status    |-> ValueOf(lines, "STATUS", ""),
       percent   |-> ValueOf(lines, "PERCENT-COMPLETE", 0),
       completed |-> IF completed = None THEN None ELSE ParseDatetime(completed)]

\* An update names no due date that was cleared, and showWithoutTime only with one;
\* and not when the task was completed, which is not read.
TaskToJmapJson(task) ==
  [text |-> task.text, status |-> task.status, percent |-> task.percent]
  @@ (IF task.due = None THEN <<>> ELSE [due |-> FormatDatetime(task.due, task.allDay)])
  @@ (IF task.due # None /\ task.allDay THEN [timeless |-> TRUE] ELSE <<>>)

ParseJmapTask(json) ==
  [kind      |-> "task",
   text      |-> json.text,
   due       |-> IF json.due = None THEN None ELSE ParseDatetime(json.due),
   allDay    |-> json.timeless,
   status    |-> json.status,
   percent   |-> json.percent,
   completed |-> None]

-----------------------------------------------------------------------------
\* Contacts

\* The form shows the first email and saves what it shows, as the only one.
EditContact(contact) == [contact EXCEPT !.emails = IF @ = <<>> THEN <<>> ELSE <<Head(@)>>]

\* serialize_vcard: of a note, newlines and commas are escaped.
SerializeVcard(contact) ==
  [i \in DOMAIN contact.emails |-> Line("EMAIL", contact.emails[i])]
    \o (IF contact.note = <<>> THEN <<>>
        ELSE <<Line("NOTE", Trimmed(Escaped(Escaped(contact.note, Newline, "n"), ",", ",")))>>)

\* What the vCard parser makes of a value: one escape after the other.
RECURSIVE VcardValue(_)
VcardValue(text) ==
  IF Len(text) < 2 THEN text
  ELSE IF text[1] # Backslash THEN <<text[1]>> \o VcardValue(Tail(text))
  ELSE <<IF text[2] \in {"n", "N"} THEN Newline ELSE text[2]>> \o VcardValue(SubSeq(text, 3, Len(text)))

\* parse_vcard: and then a newline and a comma are unescaped once more.
ParseVcard(lines) ==
  LET emails == SelectSeq(lines, LAMBDA l : l.name = "EMAIL")
      note   == VcardValue(ValueOf(lines, "NOTE", <<>>))
  IN  [kind   |-> "contact",
       emails |-> [i \in DOMAIN emails |-> emails[i].value],
       note   |-> Unescaped(Unescaped(note, "n", Newline), ",", ",")]

\* contact_to_jmap_json and parse_jmap_contact: a map from "0", "1", ...
ThroughJmap(contact) == [kind |-> "contact", emails |-> contact.emails, note |-> contact.note]

-----------------------------------------------------------------------------

\* Every save over JMAP is an update: it changes what it names and leaves the rest.
\* Of a contact it names everything.
Updated(x) ==
  CASE way = "dav" \/ x.kind = "contact" -> None
    [] way = "jmap" /\ x.kind = "event"  -> EventToJmapJson(x) @@ object
    [] way = "jmap" /\ x.kind = "task"   -> TaskToJmapJson(x) @@ object

\* How an item is listed that was saved, as this object over JMAP.
Through(x, updated) ==
  CASE x.kind = "event" /\ way = "dav"    -> ParseEvent(EventLines(x))
    [] x.kind = "event" /\ way = "jmap"   -> ParseJmapEvent(updated)
    [] x.kind = "task" /\ way = "dav"     -> ParseTask(TaskLines(x))
    [] x.kind = "task" /\ way = "jmap"    -> ParseJmapTask(updated)
    [] x.kind = "contact" /\ way = "dav"  -> ParseVcard(SerializeVcard(EditContact(x)))
    [] x.kind = "contact" /\ way = "jmap" -> ThroughJmap(EditContact(x))

\* What another client may have made of an item before, in what an update may not
\* name.  The form of a task leaves showWithoutTime as it was.
Made(x) ==
  CASE way = "dav" \/ x.kind = "contact" -> {None}
    [] way = "jmap" /\ x.kind = "event"  ->
         {[timeless |-> timeless] @@ EventToJmapJson(x) : timeless \in BOOLEAN}
    [] way = "jmap" /\ x.kind = "task"   ->
         {[timeless |-> x.allDay, due |-> due] @@ TaskToJmapJson(x) :
            due \in {None} \cup {FormatDatetime(m, allDay) : m \in Moments, allDay \in BOOLEAN}}

EventOf(text, start, end, allDay, status) ==
  [kind |-> "event", text |-> text, start |-> start, end |-> end, allDay |-> allDay, status |-> status]

Init ==
  /\ way \in {"dav", "jmap"}
  /\ \/ \E text \in Texts : item = EventOf(text, 0, 3600, FALSE, "CONFIRMED")
     \/ \E start, end \in Moments, allDay \in BOOLEAN, status \in {"", "CANCELLED"} :
          item = EventOf(<<>>, start, end, allDay, status)
     \/ \E due, completed \in Moments \cup {None}, allDay \in BOOLEAN, status \in {"", "COMPLETED"} :
          item = [kind |-> "task", text |-> <<>>, due |-> due, allDay |-> allDay, status |-> status,
                  percent |-> 50, completed |-> completed]
     \/ \E emails \in {<<>>, <<"a">>, <<"a", "b">>}, note \in Texts :
          item = [kind |-> "contact", emails |-> emails, note |-> note]
  /\ first = item
  /\ made \in Made(item) /\ object = made
  /\ times = "none"

\* Edited without a change, saved, and listed.
SaveAndList ==
  /\ object' = Updated(item)
  /\ item' = Through(item, object')
  /\ times' = IF times = "none" THEN "once" ELSE "again"
  /\ UNCHANGED <<way, first, made>>

Next == SaveAndList

Spec == Init /\ [][Next]_vars

-----------------------------------------------------------------------------
\* Properties

Has(text, a, b) == \E i \in 1 .. Len(text) - 1 : text[i] = a /\ text[i + 1] = b

\* What the form can hold and the way carries: a text without a backslash
\* before an n, and (DAV) without spaces at its end; an all-day event from
\* midnight to midnight, over JMAP of one day; an end that is not before the
\* start; one email at most.  And not what an update over JMAP does not name: an
\* event that is no longer all-day, or a due date that is cleared.
Carried(x) ==
  CASE x.kind = "event" ->
         /\ way = "dav" => ~Has(x.text, Backslash, "n") /\ Trimmed(x.text) = x.text
         /\ x.allDay => x.start % Day = 0 /\ x.end % Day = 0
         /\ way = "jmap" =>
              /\ x.start <= x.end
              /\ IF x.allDay THEN x.end = x.start + Day ELSE ~made.timeless
    [] x.kind = "task" ->
         /\ x.allDay /\ x.due # None => x.due % Day = 0
         /\ way = "dav" => (x.allDay => x.due # None)
         /\ way = "jmap" => x.completed = None /\ (x.due = None => made.due = None)
    [] x.kind = "contact" ->
         /\ Len(x.emails) <= 1
         /\ way = "dav" => Backslash \notin Range(x.note) /\ Trimmed(x.note) = x.note

\* An empty status is written as the one it stands for.
SameBut(x, y) ==
  \A field \in DOMAIN x :
    x[field] = y[field] \/ (way = "dav" /\ field = "status" /\ x[field] = "")

\* What is saved comes back as it was, text, time and all, however often it is
\* edited and saved.
SavedAsWritten == times # "none" /\ Carried(first) => SameBut(first, item)

\* The note of a vCard, whose backslashes are unescaped and never escaped; and
\* what is listed as all-day over JMAP though it has a time, for it was all-day
\* before: the next save takes the time away.
Drifts(x) ==
  CASE x.kind = "contact" -> way = "dav" /\ Backslash \in Range(x.note)
    [] x.kind = "event"   -> way = "jmap" /\ x.allDay
                             /\ (x.start % Day # 0 \/ x.end # x.start + Day)
    [] x.kind = "task"    -> way = "jmap" /\ x.allDay /\ x.due # None /\ x.due % Day # 0

\* What a conversion does lose, it loses the first time: from then on saving
\* and listing change nothing, so that no item drifts from edit to edit, but for
\* these.
Unmoved == times # "none" /\ ~Drifts(item) => item' = item

Settles == [][Unmoved]_vars
=============================================================================
