# Verification of dziber

dziber is an XMPP client written in Rust: an `iced` interface (`src/src/ui`), a worker task that
owns the XMPP stream (`src/src/xmpp/client.rs`), an OMEMO library with its own double ratchet
(`src/omemo`), Jingle voice calls, an SQLite store, and synchronisation of mail, contacts and
calendars. This directory holds TLA+ specifications of its core, the TLC runs that check them, and
proofs for TLAPS. `PROJECT.json` says for every definition which source lines it stands for.

Run `tlc -config X.cfg M` for a run of the table below and `tlapm M.tla` for a proof module.

## 1. Inventory

| component | state | operations | talks to | hard parts |
|---|---|---|---|---|
| **Double ratchet** `omemo/src/signal_ratchet/` | `Session`: root key, own and remote ratchet keys, sending chain, receiving chains, skipped keys, pending prekey | `new_alice`, `new_bob`, `encrypt`, `decrypt` | the manager calls it | both sides send at once; loss, reordering, replay; errors after the state has changed |
| **OMEMO manager** `omemo/src/manager.rs` | sessions per JID and device, device lists, bundle cache, trust | `update_device_list`, `create_session_from_bundle`, `encrypt_message`, `decrypt_message`, `load_or_generate`, `save` | worker, store | several devices, sessions that both sides start, what is saved and when |
| **OMEMO store** `src/src/db/omemo.rs` | tables of the account, sessions, devices, bundles, trust | `save_*`, `load_*` | manager | delete-then-insert without a transaction; crash between tables; quitting without saving |
| **Calls** `client.rs` (Jingle), `ui/app.rs` | `jingle_sessions` in the worker; `active_call_*`, `pending_incoming_call` and the audio engine in the interface | start, accept, decline, hang up; session-initiate, -accept, -terminate | worker and interface exchange commands and events, parties exchange requests | clicks race with events; glare; busy callee; lost connections |
| **Media** `audio/mod.rs`, `call/mod.rs` | engine, candidates, media task, jitter buffer, SRTP context | `start_call`, `apply_remote_candidates`, `push`, `pop_ready`, `send_pcm_frame`, `recv_frame` | interface; UDP | 16-bit wrap, loss |
| **XMPP worker** `client.rs` | client, `stream_healthy`, `pending_iqs`, `omemo` | commands, stanzas, stream events | everything | requests in flight over a reconnect, archive paging, partly failed sends |
| **Conversations and history** `ui/app.rs`, `models/conversation.rs`, `db/mod.rs` | conversations, unread counts, message table | receive, correct, delivered, select, reload | worker events, database | duplicates from stream and archive; corrections before their message; counts |
| **Personal data** `personal_data/*`, `db/{mail,contacts,calendar}.rs` | local copies and their sync state | IMAP, JMAP, CardDAV/CalDAV, ManageSieve | interface, servers | local edit against remote change; periodic synchronisations overlapping |
| **Settings and secrets** `ui/settings.rs`, `secrets.rs`, `db/mail.rs` | account rows, passwords in the keyring, the form, the configuration of earlier versions | save, clear, migrate, load | interface, keyring, database | a failing keyring; ids made anew; a migration that runs again |
| **Views, tray, notifications** | layout and OS handles | | interface | none with protocol state |

What makes each correct:

* *Ratchet*: a message key encrypts one message; a message is shown once and its key is gone
  afterwards; two ratchets stay in step while messages of one chain arrive before the next chain's;
  memory for skipped keys grows by a bounded amount per message; on a good stream everything is read.
* *Manager and store*: a session on disk is never behind one whose counters were used; a failed save
  leaves either the old or the new state; every device that should read a message has a slot.
* *Calls*: both ends agree once nothing is in transit; a call that is over stays over; what the
  screen shows is what the worker has; hang-up and answer reach the peer.
* *Worker*: an answer is matched to the request it answers, also after a reconnect; every connected
  client gets into the account's device list and no device is dropped from it; the requests end.
* *History*: a message is shown once and in the end; screen and table agree; what was not seen counts
  as unread; the selection stays with its contact.
* *Media*: packets are played in order, late ones dropped, and play-out never stalls.
* *Personal data*: an edit never replaces a version it was not made from, what is deleted stays
  deleted, saving again changes nothing, and a sync repairs whatever overlapped or failed.
* *Settings*: what was saved is in use after the next start, and every account has its password.

The hazards, each at its line, with the properties that cover them, are in `PROJECT.json`.

## 2. Plan

Done:

1. `SignalSession`: the ratchet as operators on session records.
   `RatchetPair`: two devices, their stream and archive. `RatchetPair_proofs`.
2. `Calls`: Jingle sessions, commands, events and the interface's call. `Calls_proofs`.
3. `OmemoStore`: the manager's memory against the tables, with crashes and quits; `AtomicStore`, the
   store it implements. `OmemoStore_proofs`.
4. `DeviceLists`: the requests a login leads to and their table, several clients of an account.
   `DeviceLists_proofs`.
5. `ChatHistory`: messages from stream, carbons and archive pages to conversations and table.
   `Connection` has 4 and 5 side by side, `MC_Connection` runs it. `Connection_proofs`.
6. `PersonalAccounts`, `MailSync`, `MailFilters`: accounts, mail and filters, composed in
   `PersonalData`. `MailSync_proofs`, `PersonalData_proofs`.
7. `DavSync`, `ItemText`: contacts and calendar, and what the formats carry, in `MC_PersonalItems`.
   `DavSync_proofs`.

Left:

* Models: sessions that both sides start, with trust decisions; file uploads and rooms; the media task
  once candidates are those of its socket.

## 3. What the modules model

### 3.1 `SignalSession` and `RatchetPair`: the double ratchet

`SignalSession` has the methods of `Session` (`omemo/src/signal_ratchet/session.rs`) as operators on
session records with the source's field names. `NewAlice` and `NewBob` are the two constructors,
`EncryptedMessage`/`AfterEncrypt` the two results of `encrypt`, `Decrypt` is `decrypt` with its
helpers in the order the code calls them: `StepReceivingRatchet`, `TakeSkipped`, `Advance`,
`CheckMac`. A decryption that fails late returns the session as changed so far, because the code
changes `self` before it checks the MAC.

Cryptography is symbolic. A Diffie-Hellman output is the unordered pair of two key pairs, a root key
the sequence of outputs mixed into it, a chain is named by the root it came with, and message keys are
a chain and a counter. A message carries its keys in place of MAC and ciphertext: it is readable iff
the receiver derives the same ones.

`RatchetPair` puts two such sessions behind a network.

| variable | code |
|---|---|
| `session` | `OmemoManager::legacy_sessions` for the one peer device |
| `generated` | the source of fresh key pairs (`KeyPair::generate`) |
| `net` | stanzas on the stream, external |
| `sent`, `received`, `reads`, `failures` | history the properties are about |

`Send` is `encrypt_message`, `Deliver` a stanza of the stream given to `decrypt_message`, `Replay` the
same for a message the archive returns again, `Lose` a stanza that dies with its stream. A network's
`order` says what it may do: `"fifo"` nothing, `"chain"` reorder within one sending chain, `"any"`
everything (archive pages come newest first, after live messages).

### 3.2 `Calls`: Jingle sessions and the call on the screen

Each party has an interface (`ui`: audio engine, call, pending incoming call) and a worker (`jingle`,
`client`, `healthy`). Between them are `cmds` and `events`. A click in `ui/app.rs` spawns a task that
sends one command, and such tasks run concurrently, so `cmds` is a *set* of which the worker takes any
element; `events` is a queue. Between the workers is `wire`, a queue per ordered pair of parties.

Actions of the interface: `StartCall`, `EndCallClicked`, `AcceptClicked`, `DeclineClicked`, `Login`,
`Logout`, `HandleEvent`. Of the worker: `InitiateCall`, `AcceptCall`, `RejectCall`, `EndCall`,
`Connect`, `Disconnect`, the requests `OnSessionInitiate`, `OnSessionAccept`, `OnSessionTerminate`,
`Online`, `StreamLost`, and `SendFails` for `safe_send_stanza` marking the stream. `StartCall` and
`InitiateCall` make *different* session ids, as in the code. The network (`Deliver`, `Duplicate`,
`Bounce`, `LoseTail`) is in order between two parties, bounces what a party that is not online would
get, and may lose the tail of what a failed stream had in transit.

### 3.3 `OmemoStore` and `AtomicStore`: what survives a restart

`OmemoStore` has the tables (`disk`), the worker's manager (`mem`), and for each thread the manager it
is loading (`local`) and the statements it has yet to execute (`program`). Each SQL statement of
`db/omemo.rs` is one step, since none is in a transaction. `Online`, `Encrypt`, `Receive`,
`UpdateDeviceList` and `Logout` are the worker's; only those that call `save` in the code start a
`Save`: `Encrypt` and `UpdateDeviceList` do not. `OpenQr` is `build_share_uri`, which loads a manager of its own
on the interface's thread. `Error` is a statement that fails: a load takes that for an empty table, a
save ends: `AfterError` leaves what follows the unit the statement belongs to, the `?` of the function
that executes it. `Crash` ends the program between two statements, `Quit` while nothing is under way (every
`process::exit` in `app.rs` is on another thread than the worker, so a quit during a save is a `Crash`).

An account is a number, a session names the key and account it was made with, its sending chain and
the next counter. A first read of a peer's chain makes the next message start a chain (`StartChain`).
Keys, accounts and chains are drawn from one counter, `fresh`, so no two are equal. A pickle of another
key is unreadable (`key` fields).

`AtomicStore` is the abstract specification: a memory and a saved state, where a save replaces the
whole saved state at once. The refinement mapping (`SavedState`) takes a save that is being written
for done; `ImplementsAtomicStore` says that `OmemoStore` without faults and with one thread is such a
store. With a fault or a second thread it is not, which is what the violation run shows.

`RatchetPair` takes a *network* from a set: its order, whether it loses messages, how many the archive
returns again, and whether prekey messages are among them. One run has three of them.

### 3.4 `DeviceLists`: how clients announce their devices

| variable | code |
|---|---|
| `node`, `bundles`, `server` | the account's pubsub nodes and what the server is like, external |
| `lists`, `sessions` | `OmemoManager::device_lists`, and which devices `legacy_sessions` has |
| `pending` | `pending_iqs`: entries under ids made from purpose and address, `Added` replaces one of the same id |
| `up`, `down` | stanzas in transit |

`Online` is what the worker does when the stream is up, `SelectConversation` the `FetchDeviceList`
command that opening a conversation sends, `StreamLost` and `Logout` the two ends of a connection, one
of which clears the table. `Serve` is the server. `HandleStanza` takes an answer off the stream, and
its entry off the table, and goes on with the handler of the entry: `OwnList` and `OtherList`,
`ListPublished`, `PublishRefused`, `Purged`, `Configured`, `BundlesFound`, `BundleFound`, `NoBundles`, and
`LiveUpdate` for a pubsub event. An encrypted session is only whether there is one; its contents are
`RatchetPair`'s.

### 3.5 `ChatHistory`: messages

`archive`, `down`, `query` are the server's side, `connection` the worker's address, `events` the channel to
the interface, `conversations` and `selected` the screen (the selection is an *index*, as in the code),
`rows` the message table. `Arrive` puts a message of somebody else into the archive and, if we are
online, on the stream, live or as a carbon. `Login` asks for the roster and the newest page, `ServePage` answers with a page
and its end, and `HandleStanza`/`NextPage` asks for the page before. `ProcessMessage` decrypts at most
once per message, since the key is gone then. `HandleEvent` is the interface's side of each event
with the sort that ends it, `ConversationSelected`, `SendMessageClicked` and `EditMessage` the user's.
An `/edit` names any id (`Named`): the table and the correction follow it wherever the message is, the
screen only in the conversation that is selected. `edited` and `strayed` are the ids of which the one or
the other has happened since the login, for the property alone.
`Quit` ends the program with events unhandled.

### 3.6 `PersonalAccounts`, `MailSync`, `MailFilters`

`PersonalAccounts` has, per kind, the account in use, the table rows in the order a load returns them
(`replace_into` moves a row to the end), the passwords in the keyring and the form. `Start` migrates an
earlier configuration whether or not the tables exist, which only `Ready` makes: `Migrate` saves all
accounts, `MigrateWithoutTables` stores the first one's password and fails at its row (`left` remembers
the id). `Connected` rewrites `config.json` without the old configuration. `SavePersonalDataConfig` and `ClearPersonalDataConfig` take the set of kinds whose keyring
call fails. The tables are sequences of rows, of which `IdsIn` is the primary keys and `Without` what a
deletion leaves.

`MailSync` has an account's mail at the server, in the tables and on the screen. The interface changes
list and row at once and starts a task (`MarkReadClicked`, `DeleteClicked`); a task makes its requests
one by one (`FetchMailboxes`, `FetchEmails`, `FetchBody`, `MarkEmailRead`, `DestroyEmail`, or over IMAP
`StoreDeleted` and `Expunge`), saves (`SaveEmails`) and ends with an event (`Deliver`). Tasks overlap. A
request may fail before or after the server acted, or be refused in an answer whose errors are not read.
Over IMAP a fetch is `UID FETCH RFC822 FLAGS` for one email after the other, without `PEEK`: what the
server sends it marks as read (`Marked`), with the flags of before or after in the answer (`Answer`), and
what does not arrive is left out of the list without an error (`Sent`, outcome `partial`). That the
server takes the two items without parentheses around them is assumed: one that insists on them would
refuse every such request, and then nothing is fetched over IMAP at all.
What is stored over IMAP is stored under another account id than it is loaded with (`Loaded`), so nothing
is listed there, and the program never gets to delete an email over IMAP: the actions `StoreDeleted` and
`Expunge` are there as the code is, and `MailSync_proofs` proves that no state enables them.

`MailFilters` is the same for the Sieve scripts: a command, then `fetch_filters` over a second
connection, then `DeleteRows` and `InsertRows`, two statements. `Extracted` is what becomes of a script on
the way: its first line.

### 3.7 `DavSync` and `ItemText`

`DavSync` has contacts, or events and tasks, as versions. What is `selected` is a copy, a `form` is filled
from it, and `Save` writes the form over what is selected *then*, with that copy's version as etag. Over
DAV the server compares it (`DavWrite`), over JMAP it does not (`JmapWrite`). A sync lists collections and
items, wipes and fills the rows and reports. A statement of a sync may fail (`Unsaved`): its result is
dropped, and the sync reports as if nothing had been. `Restart` and `Elsewhere` are the program's end and
other clients.

`ItemText` is the pure part: `SaveAndList` writes an item as the code writes it and parses it as the code
parses it, over DAV or JMAP. Over DAV the whole item is replaced. Over JMAP a save is an update of the
`object` at the server: `EventToJmapJson` and `TaskToJmapJson` name what the code sends, and what they do
not name keeps the value it had (`Updated`), at first one that another client `made`. Texts are sequences of characters that matter (backslash, n, comma,
semicolon, newline, space), moments are seconds, durations the parts of an ISO duration.

### 3.8 Modules that run several

`Connection` (run by `MC_Connection`), `PersonalData` (run by `MC_PersonalData`) and `MC_PersonalItems` put
components that share no variable side by side. `Connection` extends `DeviceLists`, has `ChatHistory` as
an instance and interleaves the two; as they do not touch each other's state, `MC_Connection` has
behaviours of one or the other only (`MCInit`). In the other two a behaviour is one of one of the
components, and the variables of the others rest.
`PersonalData` extends `MailSync` and has the accounts and the filters as instances, and
`MC_PersonalItems` extends `DavSync`, so that the runs check the very properties the proofs are about;
in a behaviour of another part the mail, or the items, rest in a state of their `Init` with an empty
server. They add no behaviour and say, for each component, its instance and its fairness.

## 4. The runs

| run | instance | shows |
|---|---|---|
| `ratchet` | 5 and 3 messages; a good stream, one that loses messages, an archive with one replay; `MAX_FORWARD_JUMPS = 1` | `TypeOK`, `NoKeyReuse`, `KeyInv`, `ReadOnce`, `ReadKeysErased`, `InOrderReadable`, `RootsInStep`, `SkippedKeysBounded`, `EventuallyRead` |
| `ratchet_late` | violation | a late message of a dropped chain breaks the session |
| `calls_three` | 3 parties, 2 callers (symmetric), 1 call each | `SidesAgree`, `OnlyCallIsShown` |
| `calls_breaks` | 2 parties, 1 call, 1 break, 1 duplicate, fair | `ShownIsLive`, `ClosedStaysClosed`, `OwnCallStaysClosed`, `HangUpReaches`, `AnswerReaches` |
| `store_quits` | 2 peers, 1 device id, 3 chains, 3 sends, 2 quits, no fault | `IdentityKept`, `ImplementsAtomicStore` |
| `store_faults` | 1 peer, 2 chains, 2 sends, 1 quit, 1 of crash, error, QR code | `ReuseOnlyOfUnsavedSends`, `SessionsOfIdentity` |
| `store_qr` | violation | a load between the statements of a save finds no account |
| `connection` | devices: 2 clients, 3 servers, 3 nodes at first, 2 logins and a break or 1 login and 2 conversations; messages: 8 scenarios of 1 to 3 messages, pages of one, fair | `ListComplete`, `KnowsListed`, `SessionsFollowFetch`, `RequestsEnd`; `ShownOnce`, `ScreenIsTable`, `NoneOverlooked`, `SelectionKept`, `EventuallyShown` |
| `devices_own` | violation | the own conversation opened during a login loses the publication |
| `history_loaded` | violation | with an address without resource the stored history is not loaded |
| `personal` | 2 kinds of account, 2 configurations, 2 saves, 3 starts, 1 keyring fault; 2 emails, 2 tasks, 2 changes, 1 fault; 2 scripts, 2 tasks, 1 change, 1 fault | `SecretsOfRows`, `IntendedInUse`; `FreshAfterSync`, `DeletedStaysDeleted`, `EventuallyInStep`; `FiltersAsStored` |
| `items` | a contact with 2 tasks and a fault, of a request or a statement; an event and a task over CalDAV and JMAP, 1 task at a time; all texts of up to 3 of 6 characters, all-day or not before, any due date before | `FreshAfterSync`, `NoLostUpdate`, `EventuallyInStep`; `SavedAsWritten`, `Settles` |

Why the bounds are enough:

* *Ratchet.* With `MAX_FORWARD_JUMPS = 1` a gap of two is already too large, so every branch of
  `fill_message_keys` is taken with a handful of messages (the code has 2000; nothing but the
  comparison depends on it). Five messages on one side make three chains with a late message in each;
  one replay brings any message back at any later moment.
* *Calls.* One call per caller and two callers give glare (each calls the other), a busy callee (both
  call the third) and a caller who is called. One break per run gives a send that fails, the stream
  that is reported lost, the reconnect and requests lost in between; one duplicate gives each request
  twice.
* *Store.* One disturbance at any statement of any load or save. Two sends on one chain are what a
  counter taken back needs. In `store_faults` device lists are empty and there is one peer, so the
  fault between the rows of two peers is not distinguished from one before the first or after the last.
  `SessionsOfIdentity` needs the bound of one: after a crash between delete and insert of the account,
  a second crash during the next start leaves a new account with old sessions.
* *Device lists.* Two clients and two logins make every overlap of two publications, and of one with
  the reconnect of its own client. The servers are one that accepts everything and sends events, one
  that checks publish options, and one that refuses to change them as well; the nodes at first are none,
  a good one, and one with several items and other options, which leads through purge and configure.
* *Messages.* Pages of one message make two or three pages of two or three messages, and overlaps after
  a reconnect. Each scenario has what its case needs: a correction, an edit and a delivery, decryption
  and a restart, an edit from another conversation, two conversations that overtake one another.
* *Personal data.* Two tasks are any overlap of two; one fault anywhere is what the recovery after it
  needs, since a sync starts from nothing. Two saves and three starts are a save, a failing save and the
  start that shows either. The calendar has one task at a time because its overlaps are the contacts',
  through the same statements.
* *Texts.* Three characters are an escape and its neighbour, the longest context any replacement looks at.

`CHECK_DEADLOCK FALSE` is set where the bounds, or users who do nothing more, let the system stop.

Only `RatchetPair` has a type invariant that a run checks; the proof modules state those they need. Elsewhere the properties read
enough of the state to fail on values of the wrong shape.

### Fairness

* `RatchetPair`: weak fairness of `Deliver`. The worker's `select!` is biased to the stream, and on a
  stream that stays up the server delivers. Nothing obliges a user to send.
* `Calls`: weak fairness of `HandleEvent` (the subscription polls the channel), of serving some
  command, and of `Deliver` per pair of parties. No fairness of clicks, connects or reconnects; so the
  two liveness properties end at `Disturbed` when a connection broke or a request came twice. Serving
  *some* command is enough as users give finitely many about a call.
* `DeviceLists` and `ChatHistory`: the head of each queue is taken (`Taken`, `EventTaken`), by the server
  that answers, the worker that reads its stream, and the interface that polls its channel; written as
  fairness of the queue's change, which only those actions and the end of a connection or program make.
  No fairness of users, logins or breaks.
* `MailSync` and `DavSync`: every task runs and its requests are answered, with an error perhaps, and the
  five minutes between two syncs pass.

## 5. Disagreements found

With a run:

1. `ratchet_late`: `maybe_step_receiving_ratchet` drops a receiving chain after storing its skipped
   keys, but those are looked up only for a ratchet key that is still in `receiving_chains`. A late
   message of a dropped chain is taken for a new chain; the root is replaced before the MAC fails, and
   the session cannot go on.
2. `store_qr`: opening the QR code during a save can find no account and then makes and saves a new
   identity. A crash at the same place ends the same way.
3. `devices_own`: the own conversation, opened while the login's device list is on its way, replaces the
   pending entry of the same id; the answer is then that of a contact, and the device is not published.
4. `history_loaded`: messages are stored and loaded under the full address, and a bare one is given a
   new resource at each login, so the history is not loaded.

Without one, from reading the code beside the sentence:

* `encrypt` takes `pending_pre_key` on the first message, although `has_pending_pre_key` documents it as
  unacknowledged until the peer answers (`session.rs:440`).
* A used one-time prekey is never removed, so a prekey message from the archive is read, shown, and
  replaces the session again (`keys.rs:108`, "A one-time prekey.").
* The tie-break of `session-initiate` refuses a known sid of another peer, not of the same peer
  (`client.rs:3046`, "duplicate SID from same peer").
* `extract_literal` returns the first line of a script, and nothing when that line has a brace; its test
  (`sieve.rs:489`) has one-line scripts only. Table and view have no more of a script than that.
* `decode_ics_text` is not the inverse of `encode_ics_text` for a backslash before an n
  (`calendar.rs:1307`, `decode_and_encode_ics_text_are_inverses`): decoding replaces `\\n` of an escaped
  backslash. `SavedAsWritten` excepts such texts over DAV.
* The old combined configuration is "Kept only for migrating old config.json" (`models/account.rs:140`):
  it is made into new accounts at *every* start until a login rewrites the file, and the next login
  discards it even when the tables did not exist yet when the program looked for it. `IntendedInUse` is
  stated for a single migration.

Without a sentence in the repository to hold it against, but shown by the models: a message sent and
not followed by a save before the program ends has its key used again for another message
(`ReuseOnlyOfUnsavedSends` is exact about this); `CallEnded` is handled without a look at its sid, so
with two calls `OnlyCallIsShown` fails; an account that cannot be *read*, because the database is
locked for instance, is replaced; two logins at once lose one device from the list, as does a break
between purge and publication (`ListComplete` excepts both); devices that a live update brings are not
asked for bundles; a callee rings again for a session-initiate that comes again after its call; a
statement of a sync of contacts or calendars that fails is not reported, and the tables stay half written
until the next sync; a plain correction that comes as a carbon or from the archive is a new message; a
message decrypted but not stored when the program ends is never shown; emails over IMAP are stored under
an account id of their own and not loaded; an item selected while a form is open is overwritten with the
form; an unchanged contact with two emails is saved with one, and a vCard note loses its backslashes; a
new item is sent as an update over JMAP and never made.

Four more have an exception in a property of their own:

* `/edit` with the id of a message in another conversation changes the table and not the screen, and sends
  the correction to the contact that is selected; with the id of a message that came in, it makes it one's
  own on the screen and not in the table. The next login shows the table's (`app.rs:557`;
  `ScreenIsTable`, by `edited` and `strayed`).
* A start with an earlier configuration and no tables stores the first account's password under a new id
  and fails at the row, once more at each such start; nothing removes these passwords (`db/mail.rs:53`;
  `SecretsOfRows`, by `left`).
* Over IMAP the sync of every five minutes marks as read whatever it fetches, the newest fifty emails of
  each mailbox (`imap_smtp.rs:443`), and the table may have the flag from before until the sync that
  follows. `FreshAfterSync` compares all but this flag, and says that it is set at the server.
* Over JMAP an all-day event that is given a time stays all-day, since the update does not say otherwise
  (`calendar.rs:1084`); it is then listed as all-day with a time, which the next save takes away. A due
  date that is cleared stays (`calendar.rs:1111`). `SavedAsWritten` excepts the two (`Carried`),
  `Settles` the first (`Drifts`).

## 6. What is proved

`RatchetPair_proofs` begins with lemmas on the operators of `SignalSession`: each returns a session and
messages of the right shape, `FillOutcome` bounds what is stored, and `Decrypt` leaves our ratchet key
and the sending chain as they are. It proves, for all numbers of messages, every set of networks (order,
loss, replays, prekey messages among them or not), and every `MAX_FORWARD_JUMPS`:

* `TypeCorrect`: `Spec => []TypeOK`.
* `SkippedBounded`: `Spec => SkippedKeysBounded`, from `TypeOK` and the bound of `FillOutcome` used
  twice, once for the old chain and once for the new.
* `KeysFresh`: `Spec => []KeyInv`.
* `NoReuse`: `Spec => []NoKeyReuse`.

`NoKeyReuse` is not inductive: it says nothing of the chain a session is about to send with. `KeyInv`
adds why no chain comes back. A chain key ends in the Diffie-Hellman output it was derived with
(`EndsIn`); one half of that is a key pair of the sender that it generates for this chain only (`Known`,
`SentInv`), and the session's counter is above all counters sent on the chain (`SessionInv`). The first
pair of Bob is never sent with, since he ratchets before his first message, which keeps the two devices'
chains apart (`ChainKeys`). `Send` is the interesting step: a ratchet step takes a pair nobody knows, so
the new chain ends in an output no other chain ends in. What arrives changes only the root, never the
sending chain, and a session that Bob makes anew from a prekey message starts with a pair he does not
send with.

* `ReadOnceCorrect`: `Spec => [](PreKeysComeOnce => ReadOnce)`, and `KeysErased`: the same of
  `ReadKeysErased`.

`PreKeysComeOnce` says of the network that the archive does not return prekey messages again; a network
that loses, reorders and returns everything else satisfies it, and so do those of run `ratchet`. Without
it both are false: a prekey message makes Bob's session again, with chains at their beginning (section
5). `ShownInv` is the inductive invariant. A session holds each key in one place only, a receiving chain
or the skipped keys, and no skipped key is at or after its chain's index (`Sound`). `TakeSound`,
`FillSound` and `AdvanceSound` show that each step of `decrypt` keeps that and gives away the key it
uses. `Erased` adds that a key read belongs to a chain not longer than the root; a ratchet step makes a
longer one, so it brings no key back. `TextsInv` numbers a device's messages, so a text shown twice
would be one message read twice, and `PreKeyInv` says why Bob's session is made once: of all messages
sent only Alice's first carries a prekey, and until it arrives he has read nothing.

* `RatchetsInStep`: `NoneIsNoSession => (Spec => []RootsInStep)`, and `ReadableInOrder`: the same of
  `InOrderReadable`.

Neither is inductive: roots that are one step apart say nothing of which side is to take the step, nor
of the messages on their way. `InStepInv` is the inductive invariant (`InStepCorrect`). Once both have a
session they are `Linked`. Either they are `Level`, with one root, and the side that has read a message
of the other's chain starts the next chain when it sends; or one is `Ahead` by the step the other makes
when it reads the first message of that chain. `Follows` relates this to what is on its way: only
messages of the chain a side reads or of the one its peer sends with, all of the first before all of the
second, each with the key of its chain at its counter, and those the chain has gone past with their key
put aside. So no message comes as of a dropped chain, no message is a duplicate (`NoRepeats`), and two
sides that send at once are never both ahead: a device that has not read the other's new chain sends on
its own old one (`NeedsRatchet`). `KeptOfPeer` says that the keys put aside are never of a chain yet to
come. `Waiting` is the time before Bob has a session, in which whichever message with a prekey comes
first makes one that fits Alice's.

Assumptions of the ratchet's proofs: `Device = {Alice, Bob}`, the two differ, and the bounds are
naturals (named `ASSUME`s of the modules, which TLC evaluates in every run). The last two theorems have
the hypothesis `NoneIsNoSession`, that `None` is no session, which holds of a model value.

`DavSync_proofs` proves `NoUpdateLost`, `Spec => []NoLostUpdate`, for any number of items, of
overlapping tasks, of other clients' changes and of faults, whether requests fail or are taken without
an answer. `NoLostUpdate` is not inductive: it speaks of versions already replaced, and not of the
writes that wait nor of the forms that later writes are made of. `CopiesInv` follows a version from the
list to the server. What is selected has a version (`SelectionListed`); a form was filled from what is
selected, unless something was selected since (`FormOfSelection`); a write that was made from a copy of
its item carries that copy's version as etag, and never `None`, with which no `If-Match` is sent
(`WritesGuarded`). So `DavWrite` replaces the server's version only where it is the one the write was
made from. There is a lemma for each event of the interface and each step of a task. Over JMAP the
statement is empty, since nothing compares versions there.

`NoUpdateLost` needs no assumption on the constants of `DavSync`. The module also proves
`FreshAfterEverySync`, `NoneIsNoTask => (Spec => []FreshAfterSync)`: after a sync that ran alone and
undisturbed, rows and list are what the server has, until something changes. `FreshInv` follows such a
sync through its steps: what it has fetched so far is what the server has (`UpToDate`), rows and list
are that as far as it has filled them (`Partly`), and all of it when it is about to report (`InStep`).
Another task, a change or a fault on the way, a statement that fails among them, makes the sync one that promises nothing.

The other personal data are proved in two modules, for any sets and bounds:

* `PersonalData_proofs`, the accounts: `SecretsCorrect`, `DataSpec => []SecretsOfRows`, every row of an account has
  its password, wherever the keyring fails, and unless it failed no password is without a row but
  those that starts without tables have left (`LeftOf` follows them); and
  `SettingsStayInUse`, `DataSpec => []IntendedInUse`, saved settings are those in use, now and after a
  start. `SecretsInv` adds that ids are keys of their tables and what forms and accounts in use may be.
  `UseInv` says that a table which never had two rows has the account in use, or none if there is none
  (`RowsInUse`), and that what is migrated again is what was migrated before. `WithoutRow` and its like
  are lemmas on tables: what deleting and replacing a row leaves.
* `PersonalData_proofs`, the filters: `FiltersStayStored`, `DataSpec => []FiltersAsStored`. A task deletes the rows and
  inserts them in two statements, so `FilterInv` says of a task that is alone (`Alone`) what the rows
  are at each of its steps, and of fresh states in which no task has touched the table that filters,
  rows and selection agree with the server.
* `MailSync_proofs`: `SyncedMailIsFresh`, `Spec => []FreshAfterSync`, and `DeletedMailStaysDeleted`,
  `Spec => []DeletedStaysDeleted`. The first is by `FreshInv`: what tasks have fetched agrees with the
  server (`UpToDate`), and a sync that is alone has all of the mailboxes it is done with (`Whole`). A
  fetch over IMAP changes the server while others hold copies, and lemmas say of it that it only ever
  marks emails as read, to which what agrees is blind.
  The second needs that nothing that is fetched can bring a deleted email back: `DeletedInv` says that
  an email that is not at the server is in no row and in nothing a task has fetched (`Absent`), and that
  while one is being deleted nothing is fetched, unless the deletion was raced, which the property
  excludes. `NothingListed` is the IMAP half.

The theorems of `MailSync_proofs` and `DavSync_proofs` are about the specification of the component,
which `PersonalData` and `MC_PersonalItems` extend. Those of `PersonalData_proofs` are about the
composition: the lemmas on accounts and filters are about its instances, and `DataSteps` says that a
step of it is a step of the part that runs or leaves that part alone. Each
but `SecretsCorrect` and `NoUpdateLost` has the hypothesis that `None` is no row, task or email (`NoneIsNoAccount`,
`NoneIsNoTask`, `NoneIsApart`), which is what a model value is and what TLC cannot evaluate for all
values. The inductive invariants were checked by TLC on the runs' instances first.

`Calls_proofs` proves, for any set of parties and callers and any number of calls, breaks and duplicated
requests:

* `TypeCorrect`, `Spec => []TypeOK`.
* `OwnCallsStayClosed`: `Spec => OwnCallStaysClosed`. `SidInv` says why nobody but the caller can bring
  a call of its own back: whatever is held, on its way, asked or on a screen about a session names the
  two parties it was made for.
* `SessionsStayClosed`: `Spec => ClosedStaysClosed`. The callee keeps no record of what it has closed,
  so this needs `OnceInv`: without duplicates there is one session-initiate per session, and who has
  received it is asked once.
* `ScreenIsLive`: `Spec => []ShownIsLive`. The screen is behind the worker by the events not yet
  handled, so the invariant is about each of them: `EventsLive` says of an event that the session is as
  it says or that its end is told by a later one, `OfflineTold` that a worker without a client has said
  so after all it has said of calls. `ShownIsLive` is the case of no event left.
* `UndisturbedOnlyCallShown`: `Spec => [](Undisturbed => OnlyCallIsShown)`, from `OnlyInv`: a session's
  callee holds it or is about to (`CalleeReached`), a terminate does not overtake its call
  (`TerminateBehind`), what has ended was told (`EndedTold`).
* `UndisturbedSidesAgree`: `Spec => [](Undisturbed => SidesAgree)`, from `SidesInv`: what each state of
  a session says of the other end's, or of the request that will change it (`CallerWaits`,
  `CallerTalks`, `CalleeRings`, `CalleeTalks`), and what a request on its way says of its sender
  (`InitiateOpen`, `AcceptOpen`).

`Undisturbed` is `breaks = 0 /\ duplicates = 0`, the states that run `calls_three` has; the theorems
hold it against any bounds. The two last are proved from the *effects* of a step on a session (`Starts`,
`Answers`, `HangsUp`, `Rings`, `Connects`, `IsOver`, or nothing): one lemma for each action says which
effects it has, one lemma for each effect what becomes of both ends. The constants need one assumption,
that `None` is neither a session nor a call (`NoneAssumption`). `OnlyInv` and `SidesInv` were checked by
TLC on the instances of the two runs before they were proved.

`OmemoStore_proofs` proves, for any sets of peers and devices and any number of messages, chains,
restarts and disturbances:

* `TypeCorrect`, `Spec => []TypeOK`.
* `ReuseCorrect`: `Spec => []ReuseOnlyOfUnsavedSends`, whatever fails, wherever the program ends, and
  however often the QR code is opened.
* `IdentityCorrect`: `Spec => [](Undisturbed => IdentityKept)`, where `Undisturbed` is
  `faults = 0 /\ qrs = 0`. Without the hypothesis it is false: `store_qr` shows the QR code, and a
  statement of a load that fails replaces the account just as well (section 5).
* `OwnersCorrect`: `Spec => [](faults <= 1 => SessionsOfIdentity)`. With two faults it is false (section
  4).
* `AtomicCorrect`: `Faults = {} => (Spec => ImplementsAtomicStore)`.

A thread's `program` is a sequence, of which `LoadKey` and `LoadAccount` put more in front and
`AfterError` cuts. The proofs need to know where a thread is, so the module first gives the places
names: `At(t, l, e)` says that the thread's program is the rest of a load or of a save that begins at
place `l`, then the end `e` (nothing, `Installing`, `Dropping` or `Closing`). Its lemmas say which
statement is the first at each place, that a step leads to the next place and an error to the place
after the unit, and that no two places have the same program. Everything after that speaks of places and
never of sequences.

* `TypeOK` says, beside the types, what a manager being loaded has at each place (`Prepared`): a key
  after the first statement, an account when one is to be saved.
* `CountersInv` is behind `ReuseCorrect`. `ReuseOnlyOfUnsavedSends` says nothing of the disk. `Counters`
  adds that a session in memory is ahead of the keys used (`Ahead`), that one on disk or being loaded is
  too unless something was sent and not saved (`unsaved`) or was lost, and that no chain is of the
  future (`Started`). `Copied` is for the end of a save: when `Saved` says that nothing is unsaved any
  more, the sessions on disk are those in memory.
* `KeptInv` says at each place of an undisturbed load or save what is on disk (`FactsAt`): nothing, or
  the first account under the key it was made with, and sessions of both; the account on disk is missing
  only between its two statements, while the manager has it.
* `OwnersInv` does the same where one fault may have happened (`OwnersAt`). Its core is `New`: a manager
  with an account just made holds no sessions. Those of the old account are on disk until the save that
  follows deletes them, and between the insertion of the new account and that deletion the tables do not
  match; before it and after it they do (`Match`, `Clean`). Reaching the first takes one fault, so there
  is none left to end the program there.
* `AtomicCorrect` maps each step to what it does to `memory` and `saved`: nothing (`Stutters`),
  `Creates`, `Starts`, `Stops`, `Changes` or `Saves`. `SavedAt` is the refinement mapping by place.

The constants need one assumption, that `None` is none of the numbers and records that are `None` until
they are made (`NoneAssumption`). The inductive invariants were checked by TLC before they were proved.
The proof of the refinement found an error of its mapping: the two conditions of `SavedState` overlapped
while a save has not yet inserted the account, which a `CASE` decides by chance; it is an `IF` now.

`DeviceLists_proofs` proves, for any number of clients, of other devices, logins, breaks and open
conversations, for servers of any kind and lists in any state:

* `TypeCorrect`, `Spec => []TypeOK`. Every entry of the table and every stanza belongs to a request the
  program makes (`Requests`), and two requests with the same id have the same kind (`SameId`), so an
  answer is handled as what it answers, whichever of the two requests it is to.
* `ListedDevicesKnown`: `Spec => []KnowsListed`. `ListedInv` says why: a client that is online knows
  each device the list names or is `Informed` of it by what is on its way: a live update, or the first
  answer to its fetch of the list, which names the device or will when the server makes it. A break
  loses both, and the next login asks again.
* `FetchedHaveSessions`: `OthersListed => (Spec => []SessionsFollowFetch)`, from two invariants.
  `AnnouncedInv`: a device that is listed, known, published or asked for has its bundle in its own node,
  since the publication of the bundle is the first request of the client's first stream (`Begins`).
  `AskedInv`: for each device a client knows and has asked for there is a session, or the bundles of the
  account are awaited, or the one of the device is (`Covered`).
* `ListStaysComplete`: `Spec => []ListComplete`. Between purge and publication the list *is* incomplete,
  so the invariant (`CompleteInv`) says who is about to mend it: a login that waits for the list, a
  purge or a configuration whose answer leads to a publication, a refusal that leads to a configuration,
  or a publication that is not refused or may be retried (`Mends`). What is so published is all devices
  (`AimGood`), as the client that writes knows them from the list its login was told (`LoginGood`), and
  nothing is written behind its back: only one client is `Busy` at a time, and a client writes only
  while it is (`IdleWrites`). That a purge is always followed by a publication, though a second request
  of the same id may have taken its entry out of the table, is `OrderGood`. What answers say of the node
  when they are read is `TrueGood`: a publication is only refused by a node that refuses it until it is
  configured.

`OthersListed`, which only `FetchedHaveSessions` needs, says that the lists at first name no client of
the model. Without it the statement is false: a device that was listed before it had ever published a
bundle is asked for once, in vain. A device gets into the list only by a client that has published a
bundle before, so a list at first stands for what other programs have left; run `connection` has such
lists only. The constants need two assumptions: the devices are finitely many (`DevicesFinite`:
`FetchEach` puts them in an order), and `None` is neither a set of devices nor a node
(`NoneAssumption`). The four inductive invariants were checked by TLC on the run's instance before they
were proved.

`Connection_proofs` proves of `ChatHistory`, for any roster, any size of a page and any scenarios, that is
any messages of others, in any number and order, any number of own messages, logins, losses, restarts
and receipts:

* `MessagesShownOnce`: `ConnectionSpec => []ShownOnce`.
* `UnseenAreCounted`: `ConnectionSpec => []NoneOverlooked`.
* `ScreenShowsTable`: `ConnectionSpec => []ScreenIsTable`, for edits of whatever id.
* `SelectionStays`: `ConnectionSpec => SelectionKept`.

`HistoryOK` is the one inductive invariant behind all four (`HistoryCorrect`). `ShownOnce` alone is not
kept by a login, which replaces the screen by the table, so the table must have each id once; nor
`ScreenIsTable` by a message that is not on the screen, unless it is in no row either. `ServerOK` says what the archive, the stream and the events
hold, over the ids *issued* so far (`IssuedOf`): an own message takes an id that is in none of them, nor
on the screen, nor in the table, so it can be added without a look. `ScreenOK` says that each id is in
the table once and on the screen once, that it is with the contact it belongs to, and that each
conversation counts at least its unseen messages. `TableOK` is `ScreenIsTable` message by message, and
`StartOK` why it can be relied upon: before the first login is handled nothing else is, as `Connected`
is the first event of every connection.

The proof goes from lists to lists. `OrderIsBijection` is the lemma on sorting: the indexes by key, equal
ones as they were, are all the indexes, each once. From it `NewestFirstArranges` and `LoadedIs` say that
`sort_conversations` and `load_messages` lose and double nothing (`Arranges`), and `CorrectedIs`,
`DeliveredIs` and `AgainIs` that corrections, deliveries and edits leave ids where they are (`SameIds`).
What holds of a list then holds of the other (`OnceArranged`, `CountedArranged`, `SameIdsKeep`,
`MatchesArranged`), and there is one lemma for each action and each event. `ConnectionSteps` says that a
step of the connection is one of the messages or leaves them alone.

The assumption on the constants is `MessagesFit` in `Connection`, which TLC evaluates in the runs
`connection`, `devices_own` and `history_loaded`: an id is that of one message, with its contact and
direction (they are UUIDs, made in `models/message.rs` for own messages); nobody else sends
a message under an own id; and a correction comes from the contact of the message it corrects. The
program does not check the last: `XmppEvent::MessageCorrected` changes the table by id only and the
screen in the sender's conversation, so `ScreenIsTable` is about clients that correct their own
messages.

Only model-checked, as out of the prover's reach: liveness
(`EventuallyRead`, `HangUpReaches`, `AnswerReaches`, `RequestsEnd`, `EventuallyShown`,
`EventuallyInStep`) and the recursive operators of `ItemText`
(`SavedAsWritten`, `Settles`).

## 7. What is not modelled

* Byte formats (protobuf, XML, base64), the strength of the cryptography, and the verification of a
  bundle's signature: data the properties do not tell apart.
* Bundle cache and trust tables of the store: saved like the device lists, after them. The rotation of
  the device id when an account lacks key material: no account of the program is saved without.
* Sessions that both sides start, and trust decisions: `RatchetPair` has one initiator, `DeviceLists`
  only whether there is a session.
* Ringing notices and candidates of a call, and its media: `local_candidates` offers `127.0.0.1:5000` while
  the media task binds another port, so no packet of a peer arrives, and a model of the jitter buffer
  and SRTP would be about states the program cannot be in. Beside that, the caller's audio engine keeps
  the sid of `StartCallClicked`, from which its SRTP key is made, while the callee has that of
  `InitiateCall`; transport-info under the first sid is ignored by the worker; and candidates that arrive
  while a call rings are cleared by the `start_call` of the accept.
* File uploads, avatars, rooms, chat states, presence and retraction in the worker; drafts and
  attachments in the interface: no order of theirs meets the state modelled.
* Sending mail (one request without local state), autodiscovery, and fields of items that no conversion
  treats differently from those modelled.
* Views, tray and notifications: layout and calls of the operating system.
