# compostela in TLA+

compostela follows log files on many hosts and keeps copies of them on one. A
`comfollower` process on each host reads its files and sends them, line by line,
to one `comaggregator`, which appends them to a file for each log ("separate"), to
a file that the hosts share ("merge"), or to both. This directory models the
transfer, the channels that several logs share one connection through, the
rotation of names by date, the messages as bytes of a stream, the follower's main
loop with its list and its control socket, the readers of both configurations, and
the buffer all bytes go through; TLC checks the models on small instances and TLAPS
proves the main safety results for every value of the constants.

## 1. Inventory

| part | code | state | operations |
|---|---|---|---|
| follow context | `follower/follow_context.c`, `follower/main.c:129-447` | `_fd`, file offset, `buffer`, `message_buffer`, `channel` | open, INIT and resume, read a piece, send DATA, reset, close (RELE) |
| aggregator connection | `follower/connection.c` | `socket` | open, send, receive; a failed send closes the socket, end of file on receive does not |
| main loop | `follower/main.c:806-852` | `g_context_list` and the place in it, `rc`, `sl` | walk the contexts, drop one that has a read error, reset all and reconnect |
| rotation | `follower/main.c:855-995` | `g_config_patterns`, the timer | a SIGALRM handler that walks the patterns each second, releases renamed logs and adds contexts |
| controller | `follower/main.c:47-127, 474-740` | `g_conn_controller` | accepts on a unix socket, one connection for each round of the loop, reads it once, adds a context |
| `comlogger` | `logger/main.c` | its socket | connects, then sends `OPEN` for each line and waits for `OK` |
| aggregator event loop | `aggregator/main.c:560-696` | epoll set, connections | accept, read one message for each edge, dispatch, close |
| channel table | `aggregator/main.c:118-220` | `channel_list` of a connection | register (largest number + 1), look up, delete |
| handlers | `aggregator/main.c:387-558` | channel buffers, files | INIT, DATA, RELE, SEEK, dummy |
| `az_buffer` | `common/azbuffer.c` | `buffer`, `cursor`, `used`, `size` | read, read_line, fetch_bytes, fetch_file, resize, push_back, reset |
| `az_list` | `common/azlist.c` | cells with next pointers | add at the head, delete, delete_all, reverse |
| framing | `common/supports.c` (`sendall`, `recvall`), `common/message.c` | - | whole messages over a byte stream |
| configuration readers | `follower/appconfig.c`, `aggregator/appconfig.c` | the globals `g_config_...`, the place in libyaml's events | options, then settings and a list of entries from a file |
| the rest | date and path helpers, digest, logging, test aids | - | functions without state of their own |

How they meet. A context has one request at a time: INIT or DATA goes out, the
main loop blocks until the answer is there. All contexts share one socket, and so
does the SIGALRM handler, which interrupts the main loop anywhere, sends RELE and
waits for an answer too. The aggregator has one thread; a handler runs to its end
before the next event. What the two processes share is the TCP stream, in which a
channel number names the log; on the aggregator's side a log is a file, whose
*size* is the resume position it gives to the next INIT.

What is hard here, and what correctness means for it:

- *Loss between two writes or two messages.* A connection or a process dies
  anywhere. The separate file must stay a prefix of the log, the digest that INIT
  compares must agree, no merged line may be joined to another or lose its start,
  and what was answered OK must be stored or still be held.
- *Old connections.* A dead connection is read until its end, possibly while a new
  one is at work: nothing it says may be written behind the new one's INIT.
- *One message for each edge.* `EPOLLET` and one `recvall` per event: correct only
  as long as there is never a second message waiting.
- *Numbers.* A number that is not found finds the last channel of the list;
  numbers are reused; a context keeps its number over reconnects and releases.
- *A handler in the middle.* The signal handler changes the list that is being
  walked, from which a cell may just be deleted, and exchanges messages on a socket
  on which somebody else is in the middle of one. No context that was opened may be
  lost, no log may go without one for good, and no message may be torn.
- *One thread for everybody.* The aggregator polls for the rest of a message, the
  follower blocks on a control connection: who can stop whom, and who cannot.
- *A parser's place.* Four functions of the configuration readers share one place in
  a stream of events; one that leaves an event too many makes the others misread.
- *Buffers.* A line travels in pieces that are held back, resized, moved.

PROJECT.json lists the hazards line by line, each with the properties that cover it
or with the reason why none does yet.

## 2. Modules

| module | models | composed with |
|---|---|---|
| `LogCopy` | what is promised of one log: the copy is a growing prefix, every finished line reaches it | - |
| `Transfer` | one log, one follower, one aggregator, TCP, crashes | implements `LogCopy` (`copy <- sep`) |
| `TransferProofs`, `CopyProofs`, `MergeProofs` | proofs about `Transfer`: the protocol, the separate file, the merged file | |
| `ByteQueue` | what an `az_buffer` promises | - |
| `AzBuffer` | `azbuffer.c` with cursor and sizes | implements `ByteQueue` (`queue <- Unread`) |
| `AzBufferProofs` | proofs about `AzBuffer` | |
| `Channels` | several contexts, rotation, channel table on one connection | |
| `ChannelsProofs` | proofs about `Channels` | |
| `MessageQueue` | what the framing promises of a connection | - |
| `Framing` | messages as bytes: `sendall`, `recvall`, the event loop, ends of connections, a handler between any two system calls | implements `MessageQueue` (`written`, `done`, `spoilt`) |
| `FramingProofs` | proofs about `Framing` | |
| `FollowerLoop` | the follower's loop over the list in memory, deletion, control socket, the handler's additions, `comlogger` | |
| `FollowerLoopProofs` | proofs about `FollowerLoop` | |
| `Config` | both configuration readers over the events of libyaml | |
| `ConfigProofs` | proofs about `Config` | |
| `MCAzBuffer`, `MCChannels`, `MCFollowerLoop`, `MCConfig` | values of the constants for TLC | |

The modules cut the system by what can go wrong, and each takes from its neighbours
what they show. `Transfer` and `Channels` exchange whole messages, each read once:
`Framing` shows that whole messages are what handlers get, and when. `Channels`
walks its list as a sequence: `FollowerLoop` shows what the list in memory is under
deletion, which `Channels` does not have. `Config` gives the values the constants
`Modes`, `Patterns` and the like stand for.

### Transfer

Byte *i* of the log is the number *i*, so that a text is an interval and "lost,
doubled or moved" can be read off a file. The follower's variables are `pc` (where
its thread is), `sock`, `opened`, `fpos`, `buf`, `msgbuf` and `chan`; TCP is `up`
and a queue each way for each connection; the aggregator is `conns`, `chans` (the
buffer of the channel) and `agg` (where its thread is: a handler's file writes are
steps of their own, so that it can die between them); `sep` and `mrg` are the
files. Each step of the follower ends where it sends or has received, and each
step of the aggregator where a write reaches a file. Actions have the names of the
code's functions where they are one (`HandlerInit`, `ReconnectFails`,
`CloseConnection`, ...); `map` in PROJECT.json has the lines of every definition.

Decisions worth knowing:

- The log is a regular file that is only appended to, without `append_timestamp`.
  The digest is the content it is computed from.
- The constant `InOrder` says whether the bytes of an abandoned connection are read
  before those of a newer one. That is an assumption on the environment, not
  something the code ensures (see the findings, resume position).
- `MayFail` lets the aggregator's `open` fail (a short `write` is not modelled).
- The configuration (`Modes`) does not change while the system runs.
- The edge of epoll is left out here: `StopAndWait` shows that it makes no
  difference for one log. `Channels` has it.
- A connection has one channel slot; `ChannelKnown` shows one is enough for one log.
- An accepted connection that is dead and empty would be closed at once; it is not
  accepted.

### AzBuffer

The allocation is a function on offsets, pointers are offsets, a cell nobody wrote
holds `Junk`. Every function of `azbuffer.c` is an action over the sizes and texts
of the instance; `Keep` is the pair resize and fetch as `handler_data` does it.
`malloc` and `realloc` succeed. `push_back` moves `used` bytes from the cursor
where the unread ones would do (`azbuffer.c:175`), and can write behind the
allocation: those writes are left out, so that what is shown is what happens
inside it. No built program calls `push_back`.

### Channels

`cxts` is the context list from its end (new contexts are put at the head, the walk
goes from the head, so from the last element down), `main` the main loop's place
in the code and in the list, `sig` the signal handler's, `req`, `resp`, `sock`,
`edge` the connection in use, `table` the aggregator's channel list. The main loop
takes no step while the handler runs; the handler can start between any two of its
steps, also while it waits for an answer, and then main loop and handler both take
whatever answer is first. Dates are numbers; a pattern says whether the date changes
the file's name and whether it changes the name the aggregator knows it by.

Left out: what is in the files (a text is known by the name of its log, and a file
that is open may have more to read or not, freely), read errors and the contexts the
controller adds (`FollowerLoop` has them), messages sent or received in parts
(`Framing`), patterns that give the same file, an alarm that finds nothing to do, a restart of the follower (a restart of the
aggregator is a lost connection here). A context that still holds a message would send it again with
its fields swapped twice; there is no such step because `NothingHeld` shows none is
due.

### Framing

A stream is all that was ever written to it, and `arrived`, `taken` and `heard` are
how much of it the network, the aggregator and the follower are done with. A unit
of it is a record: the message it belongs to, its place in that message, and the
length the header announces. "Cut", "torn" and "out of step" can then be read off
the units, and what a header announces that is read at the wrong place is either
nothing or more than will ever come (`Huge`), which are the cases that differ.

`call` has, for each follower, the exchange of the main loop and that of the signal
handler: idle, sending with `n` units sent, or reading the header or the content of
the answer with `n` units read. The handler's is on top while it is not idle.
`SendSome` is one `send` of `sendall`, `HearHead` and `HearBody` one `recv` of each of
the two `recvall`s, `Heard` and `HearEnd` what `receive_message` makes of it. On the
aggregator's side `ready` and `batch` are the edges epoll holds and has given,
`RecvHead` and `RecvBody` its `recvall`s, `ShortHead` a header cut short, `Handle` the
call of a handler and its answer.

- A handler sends only on a socket that takes any message at once (`Rotating
  \subseteq Roomy`): a message is at most `BUFSIZE`, at most two are under way, and
  that is less than any send buffer. `WholeOrLast` depends on it.
- `recvall` of the follower is interrupted between calls, not inside one: an
  interrupted `recv` without data is called again.
- A connection ends in one of three ways: the process is gone and what it wrote still
  arrives, a reset loses what has not arrived, or the host vanishes and nothing ever
  tells. How the follower then reconnects is in `Transfer` and `Channels`.
- An answer is written at once.

### FollowerLoop

The list is the memory it is: `mem` has the cells with their `next`, `head` is
`g_context_list`, `li` the cursor. `g_context_list = az_list_delete(g_context_list,
cxt)` is the four steps it is made of, and `az_list_add` of the control socket two, with
`arg` the value of `g_context_list` the call was made with and `prev` the cell before the
freed one, which the recursion has on its stack. A freed cell keeps its `next`, or gets
the allocator's in its place: NULL, junk, or a pointer to another free cell, itself one
that was freed before or one that `malloc` may hand out at once. The walk goes on from it,
as the code does (`Advance`), and from a free cell it comes to, to wherever that leads
(`RunFreed`); a handler that comes to such a cell may find any name, add, crash or never
return (`Strays`). What the follower does with the *object* of a free cell is not followed: it
ends in a crash or the walk goes on. A pointer that is junk crashes the process; a handler
that calls `malloc` while main is in it, or walks a list without an end, never
returns (`dead`). Cells that nothing leads to are as good as new (`Forget`), and one new cell
as good as another (`New`).

- Between reading `g_context_list` and assigning it there is at most one alarm
  (`rung`): a few instructions take less than the second between alarms.
- What runs in a context, and the reset of all of them after a lost connection, is
  left to `Transfer` and `Channels`; `Run` opens the file if a descriptor is left.
- A control connection is accepted when there is a descriptor for it. `comlogger`
  sends `OPEN -d tag path`, of which the follower takes the first word for the name
  and the second, `-d`, for the path (`follower/main.c:474-494`): the context is
  there, with the same path and name for every client (`Opened`), and its file never
  opens. Only `by`, a history that nothing reads, tells one client's context from
  another's.
- Clients are numbered as they connect, and one that has sent a line is not said to end:
  the follower never reads that connection again, so it is all the same to it.

### Config

A file is a sequence of items (a key with a scalar, with entries, with nothing or
with a mapping), `Events` is the stream libyaml makes of it, or a part of it that ends in a
failure, and every function of the two readers is a step or a few on the next one or two
events. A parser that has failed, or is at its end, goes on to give events without
a type. A path that was never set (NULL) is "". `ReadsAsMeant` compares the globals
with a definition of what the file says that knows nothing of events (`Meant`), with
the command line's values as what holds without it (`Chosen`).

## 3. Runs

All finish in a few minutes at most; the bounds are in the `.cfg` files.

| run | checks | shows |
|---|---|---|
| `transfer_separate` | `SepPrefix HashAgrees AckedStored NoStaleWrite ImplementsCopy` | separate files, all failures: an exact prefix, and every finished line arrives |
| `transfer_merge` | `AckedStored SepIncreasing MergedRecords MergedCoversSep MergedEventually` | merging, alone and beside separate files |
| `transfer_faults` | `TypeOK StopAndWait ChannelKnown` | the protocol's discipline, in every configuration, with failing opens and out-of-order connections |
| `transfer_both` | `HashAgrees` **violated** | the default configuration damages the separate file, and the follower exits |
| `transfer_write_fails` | `AckedStored` **violated** | a failed open loses an answered line |
| `azbuffer` | `TypeOK ImplementsQueue KeepsAll LinesWhole` | any calls in any order: a queue of bytes |
| `channels_files` | `TypeOK TextStaysHome KeepsRunning` | where names change only with files: right channel always, and no hang |
| `channels_rotating` | `NumbersDistinct OneEach NothingHeld FollowsToday` | a name rotates alone and RELE crosses other messages |
| `channels_unknown` | `UnknownIsInit` **violated** | after a rotation the old context's text has no channel |
| `framing` | `TypeOK WholeOrLast AnswersOwn OutOfStep ImplementsQueue Served Reaped` | handlers see a queue of whole messages; who can stop the aggregator, and what puts a follower out of step |
| `loop` | `TypeOK ListSound OpenedStays OnlyFirstLine AlwaysListed RunAgain FirstLineAnswered` | the list survives deletion and additions in any order; every log is run again and again |
| `config` | `ReadsAsMeant LoadEnds` | sensible files are read as they are meant, and which files are read for ever |

Bounds, and why they suffice for the question asked:

- Transfer: a log of 4 bytes with two lines, a message of 2 bytes, a buffer of 3,
  so a line goes in one, two or more pieces, a refill falls inside a line, and a
  resume can fall before, inside or behind a held-back piece. Three connections
  give an abandoned one, its successor and a second failure during the resume. The
  last connection is not broken: the bound would otherwise be a loss of the network
  for ever, which liveness cannot survive.
- AzBuffer: sizes up to 6 and texts up to 2 bytes reach growth, shrink refused,
  every relation of `ssize`, `n` and `u` in `push_back`.
- Channels: two logs, two connections, and one or two changes of the date: a number
  released and given again, a second rotation after the first has left the main loop
  hanging, a reconnect in between.
- Framing: one connection with a handler and one that sends in parts, a header of 2
  units, a content of 2 and an answer of 1, so that every cut, at a boundary, in a
  header, in a content, exists; two messages, so a second one may be torn by the
  first or be waiting behind it; one end, so that the other connection shows what it
  does to those that live. 86,358 states.
- FollowerLoop: a log that may be unreadable and one that is dated, so that the
  deleted context is behind the first or, after midnight and additions, behind several;
  two clients with two lines each, whose contexts are in the list together; five cells,
  as many as a list can have, so that a freed cell must be handed out again; four
  descriptors, enough for both logs and both clients, so that they run out. 403,931
  states.
- Config: files of up to two items from fourteen, whole or broken at any event, with
  three command lines for each program. 326,898 states. Each function keeps no more
  than the place in the stream, so what two items after one another can do to each
  other is what there is.

`CHECK_DEADLOCK FALSE` stands where the system stops: in the Transfer runs the whole
log is shipped or the follower has exited; in `framing` all that was to be sent is
handled, or a host has vanished; in `loop` the process is dead; in `config` reading has
ended; in the rotating runs of Channels the main
loop can wait for an answer that never comes. That hang is real: INIT or DATA has been sent, an
alarm sends RELE, both arrive before the aggregator takes the event, it reads one
message, the handler takes the answer and goes, and the main loop waits with its
request unread and no event to come. `OneEach` holds in it, for it only counts
messages and answers against those that wait. `KeepsRunning` is therefore checked where the
handler has nothing to release, and `FollowsToday` shows that even in the hang the
handler goes on adding today's contexts.

Findings. (1) With merge and separate both on, the default, `_do_merge_file` resets
the buffer `_do_append_file` is about to write (`aggregator/main.c:305`). (2) The
results of both writes are ignored and the message is answered OK (`:493`). (3) A
released context stays in the list with its file open and its number
(`follower/main.c:946`, `follow_context.c:154`): its next text goes to the last channel of the
list, to the one that got the number again, or, with none left, into a NULL channel.

Other things a reader of the code should know, which the passing runs allow for in
their properties rather than refute:

- The resume position does not know of messages still unread on an older connection
  (`aggregator/main.c:427`); without `InOrder` they are written twice.
- A deletion (`follower/main.c:828`) leaves the walk on the freed cell. When the allocator
  cleared its pointer, the walk ends early; when it left a link to another free cell
  there, the walk goes on among free cells (`RunFreed`) until it crashes, ends, or comes to
  one that has been handed out again; a circle of them traps it (`Trapped`).
- An alarm in a deletion: what it added is lost when the old list is assigned, and added
  again a second later. When it was handed the freed cell and that was the first, the
  cell is its own successor: the handler, if it looks for another name, walks for ever, and
  the main loop stays on the cell (`Trapped`) or runs over the end of the list in
  `az_list_delete`.
- Every `comlogger` gets a context of its own for the path `-d` (`follower/main.c:494`); none
  is ever taken from the list again.
- Every read error leaks a descriptor (`sc_follow_context_destroy` does not close), and so
  does every control connection that said something.
- The second line of a `comlogger` is never answered, and one that has connected and
  not sent stops the follower (`Silent`).
- An alarm between two reads of one answer puts the follower out of step with the
  answers, and nothing else does (`OutOfStep`). It does not get back in step by itself,
  but a second alarm can bring it to a boundary by chance: then the handler is in step,
  the main loop it returns to still is not (hence `~Amid` in `InStep`). With one rotating
  connection and three messages TLC shows that.
- Half a message of a host that vanished stops the aggregator for all (`StuckOn`); a header
  cut short by an end is handled as a message (`ShortHead`). `Reaped` is about a follower
  that closed or was killed; of a connection that was reset it says nothing.
- `HashAgrees` and `NoStaleWrite` hold where connections are read in order (`InOrder`).
- A broken configuration file, or `patterns:` with no sequence, is read for ever; a
  known key with a value that is no scalar, or a second `patterns` for the
  aggregator, ends the process; the value of an unknown key is read as a key.
- `tests/azbuffer_tests.c:231` expects `fetch_bytes` to grow the buffer; it takes what fits.

### Fairness

Transfer: weak fairness for the follower's loop, the handler in progress and the
event loop's steps for each connection, since both are `for (;;)` loops over
blocking calls that return; strong fairness for `Reconnect`, since the follower
tries again each second and a listening aggregator is reached by one of
infinitely many attempts. Nothing is assumed of the application, of restarts, or of
when a connection breaks; but that one has broken is always reported in the end to a
follower that waits for an answer on it. The code has no keepalive and no timeout, so
a follower whose aggregator's host vanished without a word waits in `recv` for ever. Channels: weak fairness for the main loop, the handler (the timer is armed
again at the end of each alarm) and the aggregator. Whether a reconnect succeeds is
left open. Framing: weak fairness for delivery and for each follower's exchange, and
for the aggregator's thread; nobody has to send anything, and no connection has to end.
FollowerLoop: weak fairness for the handler, strong fairness for the main loop, which
the handler interrupts again and again (a second is longer than both), and strong
fairness for an alarm outside the few instructions between reading and assigning
`g_context_list`: the alarm does not fall there each time. Config: weak fairness, the
reader runs.

## 4. Proofs

Nothing is assumed but the named `ASSUME`s on the constants.

- **Protocol** (`TransferProofs`). `ProtocolInv` = types; at most one connection is
  live, and it is the newest (`OneConnection`); a channel belongs to an accepted
  connection (`ChannelOwned`); of a connection there is at most one message in
  either queue or in the handler (`OneMessage`); what is in a queue fits the state of
  the channel (`RequestsKnown`); connections not yet made are empty (`Unused`); and
  where the follower's control is determines what may be under way (`Control`,
  `LiveControl`). `StopAndWait` alone is not inductive: that a send finds the queues
  empty follows only from where the follower's control is. Theorems: `TypeOK`, `StopAndWait`, `ChannelKnown`
  for every configuration and failure.
- **Copy** (`CopyProofs`), under `Reliable` (separate files only, `InOrder`, opens
  succeed). `transfer_both` shows why the first, `transfer_write_fails` what a failing open
  loses; for `InOrder` there is no run, and what happens without it is told above (resume
  position). `CopyInv` follows
  the next byte of the log: file, channel buffer, message under way and read buffer
  each continue the one before (`Aligned`, `HandlerAligned`, `FollowerAligned`), only
  the newest connection with a channel still has something to say (`NewestSpeaks`),
  and a given position matches the file until it is taken (`ReplyMatches`), also
  when the file could have grown meanwhile. It holds of every behaviour that writes
  separate files only, whatever other modes there are (`Copying`). Theorems: `SepPrefix`,
  `HashAgrees`, and the safety part of `ImplementsCopy` (every step is a step of
  `LogCopy` or leaves it alone).
- **Merge** (`MergeProofs`). In the default mode the separate file is damaged (finding
  1), so an invariant that says where the next byte stands fails; `MergeInv` says of the
  connection the follower speaks on how far its text got, `At(c, n)`, in three parts that
  survive the damage: what is in the separate file and then in the buffer ascends and is
  not past `n` (`Follows`), the buffer is the beginning of the line that byte `n` is in
  (`Holds`), and every byte up to `n` is in the merged file or in the buffer (`Covers`).
  It is stated at each place of the follower's control (`FollowerAt`), of the message in
  the queue (`PendingAt`) and before each write of a handler (`HandlerAt`). `Follows`
  needs `InOrder` and holds when writes fail; `Holds` and `Covers` need opens that succeed
  and hold in whatever order connections are read; each theorem takes only its own.
  Theorems: `SepIncreasing` (`InOrder`), `MergedRecords` and `MergedCoversSep`
  (`~MayFail`), `AckedStored` (both), `NoStaleWrite` (`InOrder`), in every mode.
- **Buffer** (`AzBufferProofs`). The type invariant (cursor and used in order, unread
  cells written) is inductive for any sizes and texts, and under it every operation
  is a step of `ByteQueue` on `Unread`. Theorems: `TypeOK`, `ImplementsQueue`,
  `KeepsAll`, `LinesWhole`.
- **Connection** (`ChannelsProofs`). `ChannelInv` = types, the main loop is at a
  context where its code needs one, the numbers decrease along the list (what makes
  "largest + 1" fresh even after a release has hit the wrong channel), and one
  message or answer for each that waits. `AnswerInv`: an NG is under way only while the
  main loop begins with a context that the handler has put a newer one for, or will when
  it is answered (`RefusedAtStart`); an open context has a number but for those
  (`Unnumbered`), so that a DATA is never sent without one (`SendNumbered`); and a context
  that holds a message was just asked about it, or the connection is lost (`HeldUntil`).
  Theorems: `TypeOK`, `NumbersDistinct`, `OneEach`, `NothingHeld`, whatever the date
  changes and whoever takes whose answer.
- **Routing** (`ChannelsProofs`), under `NamesFollow` (each name that changes with the
  date belongs to a file that does). `RoutingInv`: the handler never waits, because
  a file that is still today's has today's name (`Dated`, `FileGivesName`); an open
  context that has a number has that of its own log, but while its first INIT is
  under way (`Registered`), where a number from an earlier connection may stand; and
  the one message or answer there is is the main loop's. Theorem: `TextStaysHome`.

- **Loop** (`FollowerLoopProofs`). `TypeInv` = types, and that the cursor is a cell
  wherever the main loop works on the context under it, and the accepted client is one
  wherever it works on a connection: no step of the loop reads through NULL or junk
  but by a crash that is a step of its own. `LineInv`: a client whose connection was read
  is never accepted again. `ListInv` is about memory. What is on the way from a pointer
  is described by sets that the next pointers do not lead out of (`Closed`), of which it is
  the least (`ChainLeast`); what a write to one cell does to a list is then proved by
  naming such a set, and that recursion and these sets agree rests on the least number
  principle of the library, which takes no operator. `Heap` says at every step of a walk,
  a deletion and an addition, with an alarm anywhere in them, that the list is `Good`: it
  ends, its cells are allocated, and no two of them are for one file but those of two
  clients. While a cell is taken out that is said of the list as it will be (`Result`), and
  before the two neighbours are joined, of the memory in which the freed cell still leads
  where it did (`Rejoined`, `Parting`), although by then it may lead anywhere and the
  handler may have got it. Of a walk that is not in the list nothing is said, and nothing
  is needed: where the freed cell leads is free in the proof as it is in the model.
  `ClientsListed`: what a client was told is in the list that lasts (`Lasting`). Theorems:
  `TypeOK`, `OnlyFirstLine`, `ListSound`, `OpenedStays`, for any logs, clients, memory and
  descriptors. (`ListSound` is about the list: that a walk which left it uses freed memory
  is the bug told above, and no theorem denies it.)
- **Framing** (`FramingProofs`). A stream is described without induction, from any unit to
  any later one (`Chain`): units of one message follow one another, then come those of the
  next. `Boundary(s, p, n)` says that after `p` units `n` messages are whole and no other
  has begun. The inductive invariant `StreamsInv` has three parts. `TypeInv`. `SendInv`: while the
  connection lives, what is written ends at a boundary, or with the part of a message the
  main loop's `sendall` has sent; it is needed because a handler may send between any two
  of its `send`s, and holds because a handler's socket takes a message at once
  (`RoomAssumption`, the one fact about the configuration used). `ReadInv`: what the
  aggregator has read of the message it is at begins at the boundary where the handled
  messages end (`InOrder`), or a header was cut short by the end (`CutShort`), or what was
  handled last was and nothing is left to read (`Over`). A header therefore announces the
  next message, and when its content is read the next boundary is reached. For the answers,
  `BackInv` says the same of a follower's exchange with `Asked`, for connections without a
  handler. With one, `RespInv` (all answers have one length; whose content is read is
  known only while it is) and `Chain` show that an exchange in step stays so, read by read:
  from any unit of a header the start of its answer is found (`HeadStart`). Theorems:
  `TypeOK`, `WholeOrLast`, `ImplementsQueue`, `AnswersOwn`, `OutOfStep`, for any
  connections, header and content lengths, and ways of cutting the streams. What is lost by
  a reset is a `Lose` of the queue because nothing beyond what arrived was handled.
- **Configuration** (`ConfigProofs`), for sensible files of any number of items, entries
  and fields (`FilesAssumption` says what an item of a file is), for both programs and any
  options. First the layout: `FlattenSeq` puts sequences end to end (`FlattenLaid`), so
  every item, entry and key has its place among the events (`ItemAt`, `EntryAt`,
  `StreamLaid`, `EntriesHere`, `EntryHere`). Then the meaning, place by place: `ReadTo(e,
  pairs, n, d)` says that `e` is what `d` has become with the first `n` pairs, one key
  more goes from `n` to `n + 1` (`SettingRead`, `FieldRead`, `UnknownRead`), and at the end
  it is `Meant` (`ReadAll`); likewise `Collected` for the list that is made backwards. The
  inductive invariant `ConfigInv` says of each function at which key or mark of the file it
  stands and that all before it has been read (`InLoad`, `InGlobal`, `InPatterns`,
  `InEntry`). `ReadsAsMeant` speaks of the end only and says nothing of the place in the
  stream, which is what the four functions share: each must leave its caller exactly after
  its part, and the value of an unknown key must be passed over as a key (the second place
  of `InGlobal`). That the patterns come once is what keeps the aggregator's assertion of an
  empty list. Theorem: `ReadsAsMeant`.

Only model-checked: liveness (`MergedEventually`, the fair part of `ImplementsCopy`,
`KeepsRunning`, `FollowsToday`, `Served`, `Reaped`, `AlwaysListed`, `RunAgain`,
`FirstLineAnswered`, `LoadEnds`), which is out of the prover's reach. The prover has no
induction over data; where a recursive definition had to be followed through a sequence
(`FlattenSeq`), the least place at which it goes wrong is shown not to exist
(`LeastNumber`).

## 5. Not modelled

- `handler_seek` (no program sends SEEK), short writes to files, disk full.
- A failing `accept` or `epoll_ctl` of the aggregator (`aggregator/main.c:671-683`), where
  `continue` leaves the event half done and the listener's descriptor is then used as a
  connection: the crash that `AggregatorRestarts` stands for.
- Files of the configuration that are not made of `FileItem`s: aliases, and values of an
  entry's key that are no scalar (the `default` branches, `follower/appconfig.c:39-60`).
- Contexts on a descriptor of the controller (`f_direct`) and with `append_timestamp`:
  `do_receive` and `_do_receive_data` of the controller have no caller.
- What `comlogger` writes to its file and how it names it.
- Async-signal-safety beyond the allocator's lock; memory exhaustion.
- Path and date formatting, MD5, logging: functions without state. The aggregator's
  SIGALRM handler logs and arms its timer again.
- `runloop.c`, `fileloader.c`, `azmalloc.c`: not part of the programs. `clean_config`
  has no caller.
- The scripts under `scripts/`: earlier prototypes in other languages.

## 6. Plan

Done, in this order: the copy and its transfer with their proofs; the buffer and its
refinement; the channels and the rotation; routing; framing over byte streams with its
queue; the follower's loop, list and control socket; the configuration readers; the
merged file; the answers of a connection; the list in memory; keeping in step; the
configuration readers' proofs.

What would come next: a composition of Transfer's content with Channels' numbers, for two
logs on one connection.
