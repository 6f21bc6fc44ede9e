# softBTS in TLA+

softBTS is the control software of a GSM base transceiver station: one C program, one thread,
one `select()` loop. It keeps two TCP connections to a base station controller (BSC) over which it
is brought into service, accepts up to four transceivers (TRX), and serves an operator's telnet
terminal (VTY). This directory holds TLA+ models of it, the TLC runs that check them on small
instances, and theorems checked by TLAPS.

Paths below are relative to the repository (`src/...` there).

## 1. The system

| Component | Code | State it keeps | Operations | Interacts with |
|---|---|---|---|---|
| O&M handlers | `src/bts_nm.c` | software state of site manager and BTS, `bts_id_resp`, operational and administrative state of every managed object | `softbts_msg`, `oml_msg` and their reply builders | called by `receive_msg`; writes to the socket the message came from and, on the manufacturer message, to `rsl.fd` |
| Abis links | `src/bts_nm.c` (`receive_msg`), `src/bts_init.c` | two sockets, one message buffer shared by everything received and everything sent | connect, read one message, dispatch by protocol byte | event loop below, O&M and RSL handlers above |
| RSL | `src/abis_rsl.c`, `L3_0408.h` | none | decode and print | called by `receive_msg` |
| Event loop | `lib/select/select.c` | list of registered descriptors, count of removals | register, unregister, one pass of `select` | calls back links, TRX server, VTY; drives timers |
| TRX server | `src/trx_init.c` | `MAX_TRX` = 4 slots | accept, ask for identity, read, close | event loop, `receive_msg` |
| Timers | `lib/timer/timer.c` | list of timers with `active`, `handled`, `in_list` | add, schedule, delete, update | event loop |
| Daemon | `src/softbts.c` | lock file and the pid in it | start, daemonize, stop, signals | the file system, another instance |
| VTY sessions | `lib/vty/telnet_interface.c`, `vty.c` | one record per terminal: node, status, failures, output buffer; one configuration lock | open, log in, execute, time out, close | event loop, command engine |
| Line editor, history | `lib/vty/vty.c` | line, cursor, ring of 20 lines | insert, delete, move, recall | session |
| Command engine | `lib/vty/command.c` | tree of nodes and commands, passwords, configuration file | match, execute, complete, read and write the configuration | session |
| Output buffer | `lib/vty/buffer.c` | list of chunks with start and end | put, flush all, flush what the socket takes | session |
| Vector | `lib/vty/vector.c` | slots, active length, allocated length | set, set at index, unset, lookup | command engine |
| Logger, talloc, list macros | `src/logger.c`, `lib/talloc`, `lib/linuxlist` | | | utilities, the last two vendored |

What is hard in it, and what makes each component correct:

* **Start-up.** Objects come up one after another only because each handler sends the request
  for the next. Requests, answers and reports of several objects are in flight together, both
  links may ask for the identity, the BSC may start the site manager again half-way. Correct:
  objects start in the order of GSM 12.21, never locked; the transceiver is declared active after
  *all* timeslots; the BSC's picture is right once nothing is in flight; service is reached.
* **One buffer for input and output.** A branch of `oml_msg` writes its answer over the message
  that later branches still test. Correct: one answer per request, about the object requested.
* **Unchecked bytes.** The timeslot of a message is an index into arrays of eight, and a state is stored as
  it comes. Correct: what is stored and answered stays what the protocol knows, as far as the code can
  promise that.
* **Links.** Two reads on a non-blocking socket per message; results of reads and sends are
  dropped. Correct: messages keep the limits they were sent with, and a closed link, which nobody takes
  off the loop, repeats no request and keeps nobody else from being served.
* **Attribute lists.** Their walk ends when an 8-bit length is exactly zero. Correct: it ends.
* **Event loop, TRX server, timers.** Callbacks change the lists that are being walked. Correct: no
  callback on a removed entry, none lost, a slot is free again after its connection ends.
* **Daemon.** Several processes and a death between opening, locking, writing and removing the file.
  Correct: one BTS at a time, the file names it, a stop ends it; where that fails is in section 6.
* **VTY.** A session goes on with the rest of a read after it was told to close; one configuration lock is
  shared by all sessions and must come back on every way out. Output waits in chunks for a socket that
  takes it in pieces. Correct: nothing is lost, repeated or reordered, and nothing is left waiting.
* **Commands.** Executing, describing and completing walk one table in loops of their own, and only executing
  goes on in the parent node. Correct: they agree, and an abbreviation is never guessed.

`PROJECT.json` lists these hazards at their lines, each with the properties that cover it or the reason
why none does.

## 2. Plan

| # | Module | Composes | Abstract specification | Theorems |
|---|---|---|---|---|
| 1 | `BtsNm`, `OmlStartup` | `OmlStartup` = `BtsNm` + BSC | `ObjectStartup` | types, acknowledgements, causality, order, `TransceiverLast`, `RslLast`, `EnabledIsUnlocked`, `StartsOnce`, `ViewAgrees`, refinement |
| 2 | `AbisLink`, `AttrList` | `AbisLink` = links + `AttrList` | | `InStep`, `NoRequestTwice` |
| 3 | `EventLoop`, `TrxServer` | `TrxServer` = `EventLoop` + callbacks | | all the safety properties of both |
| 4 | `Timers` | | `AlarmClock` | types, flags, once per pass, what oversleeps, refinement |
| 5 | `Daemon` | | | `OneDaemon`, `FileNamesDaemon` |
| 6 | `VtySession` | sessions + command effects | `ConfigMutex` | agreement, failures, mutual exclusion |
| 7 | `LineEditor` | | `EditedLine` | buffer is a C string, refinement |
| 8 | `OutBuffer` | | `ByteStream` | chunks and flags, refinement |
| 9 | `Commands` | | | the line, `NothingIsGuessed`, `DescribedIsAccepted` |

All nine are written and checked; the order is by importance to the system. Dropped from the first plan:

* `ConfigFile`, the steps in which `config_write_file` (`command.c:2452`) replaces the file:
  `vty_read_config_file` has no caller, so `host.config` is never set, `write file` always refuses (`command.c:2467`), and the steps are never reached.
* `Vector`: what its users need of it is a set or a function, in `Commands` and `VtySession`.
* The rest octets of SI3: `rest_octets_si3` reads what it never assigned (section 6).

## 3. Module and code

### `BtsNm`: the handlers (`src/bts_nm.c`)

The program handles one message to its end before it reads the next, so one action is one handler
with all it sends. The handler is chosen by the protocol byte and not by the link, so each action
takes the link `l` the message came on.

| Model | Code |
|---|---|
| `bts_id_resp`, `sw_site_manager`, `sw_bts` | globals `softbts.c:34-52` |
| `opstate`, `admin_state` | the `*_opstate`, `*_admin_state` globals and the two channel arrays; a function over `Objects` |
| `"ZERO"` | the byte 0 that C leaves in elements 1-7 of the arrays |
| `running` | cleared when the program ends itself in `kill_background` |
| `inbox[l]`, `outbox[l]` | what is on the TCP stream of link `l` in each direction |
| `Ping`, `IdGet`, `NoEffect` | `softbts_msg`, `rsl_msg`, unknown protocols |
| `SwActReqAck`, `ActivateSw`, `Opstart`, `SetAttr`, `ChgAdmState`, `RslConnect` | the branches of `oml_msg` |
| a handler `h`: `h.buf`, `h.sent`, `h.left` | class and timeslot that lie in the message buffer now, what was sent so far, whether a `break` was reached |
| `ActivateSiteManager`, ..., `ActivateChannel`, `StartSiteManager`, ..., `StartChannel` | the bodies of the `if`s of `oml_msg`, each of which builds its answers in that buffer (`Put`) |
| `Branch`, `ActivateBranches`, `StartBranches` | the `if`s in their order: each tests the class that lies in the buffer when its turn comes |
| `LastChannelReport`, `InitialStateReport`, ... | the messages built, in the order sent |
| `OpstartBeyond`, `ChgAdmStateBeyond`, `WriteBeyond` | a timeslot beyond the last: a write beyond `channel_opstate` or `channel_admin_state` |

The two handlers whose answers could lead on into another object's branch run through all branches: after
`ACTIVATE_SW` of the baseband transceiver, `RADIO_CARRIER` lies in the buffer, and only the `break` of
`bts_nm.c:1015` keeps the branch that follows from running (the mutant `ActivateBasebNoBreak` leaves it out).

`NM_MT_CHG_ADM_STATE` for the site manager has no branch, and is neither stored nor answered. `Ping`
leaves `running` undetermined: the code tests a return code that was never assigned.
`LastTs` replaces 7. Of a message the model keeps type, class and timeslot, and the states that are
reported; the BTS and transceiver numbers, which no handler tests, are left out. A message about a class the BTS
has not changes nothing and is an `"UNKNOWN"`; attributes are sent to an object of the class they are for. A
message of the manufacturer has no type that the first `switch` knows. Definitions introduced by "A variant" are
plausible mistakes in the one below them; no action uses them.

The module's own specification `AnySpec` puts a BSC in front that sends *any* message it knows, one at a time, on
either link, with any byte for a timeslot (`NamedTs`) and any for a state (`Requested`; `"ZERO"` is 0 and
`"OTHER"` every value without a name). Nothing checks either (`bts_nm.c:1172, 1343, 649`). Where a timeslot
is beyond the arrays, what is written over is up to the build, and `WriteBeyond` is a choice: nothing that anybody
reads, a stored state, the flags, or something without which the program is lost. A byte of a
state kept there may take any value; pointers and descriptors beyond the arrays count as "lost".

### `OmlStartup`: the handlers and a BSC that follows the procedure

softBTS contains no BSC; `Reaction` is an external model read off the requests `oml_msg` expects and
the reports it sends to provoke them (the sequence is quoted in `bts_nm.c:257-262, 364-373`).
Both programs run concurrently over four FIFO streams. `asksId`, `pings` and `restarts` bound what
the BSC does on its own; `view` is its picture of the objects; `said` and `asked` are history
variables, read by properties and by one guard of the BSC only.

### `ObjectStartup`: what the start-up promises

Each object goes idle - requested - active - started, never back. `OmlStartup` implements it
through `LifeCycle == INSTANCE ObjectStartup WITH ...`: the stage of an object is read off its stored state and
the acknowledgements sent; the three relations say whose turn comes after whom.

### `LinkedList`: the lists (`lib/linuxlist/linuxlist.h`)

A list is the sequence of its entries. `After` is the entry a walk looked up before a callback,
`Without` unlinks, `AddFirst` and `AddLast` link.

### `EventLoop`: one pass of `socket_select_main` (`lib/select/select.c`)

A pass is several steps, because callbacks change what is walked: `SocketSelectMain(ready)` is the
return of `select()`, `NotReadable` passes an entry by, `PassEnds` leaves the walk. A user's callback of
entry `e` is one action that begins with `Called(e)` (it is `e`'s turn, its bit is cleared) and ends with
`Resume(e, removed)` (go on with the entry looked up before, or start anew when more than one was
removed). `AnyCallbacks` instantiates this with callbacks that read or not, open, and close one or
two connections.

### `AbisLink` and `AttrList`: receiving (`src/bts_init.c`, `receive_msg` and `bts_get_attr` in `src/bts_nm.c`)

| Model | Code |
|---|---|
| `msg` | the buffer shared by both links, by input and by replies |
| `flight[l]`, `arrived[l]`, `closed` | bytes TCP has not delivered yet, bytes the socket has, links the BSC has closed |
| `SocketInit` | `socket_init`, O&M link first; a refused connection ends the program, or does not if the lock file is gone |
| `ReadHead`, `ReadBody` | the two `recv`s of `receive_msg`, with the BSC's steps and the delivery of bytes in between |
| `Request`, `Plain`, `RslConnect`, `SetBtsAttr`, `SetBtsAttrAck` | dispatch: what a handler leaves in the buffer, its reply or the message |
| `MayEnd` | the unassigned return code of a ping, or SIGPIPE after an answer to a peer that has closed |
| `Walks` / `WalkRound` | a round of the loop of `bts_get_attr` |

A byte of the model is a part of the message that is looked at as one: length and protocol are the header,
type and object the body. A read that brings less than was asked for leaves what the buffer had, as `recv`
does, and the message that is dispatched then is what the buffer holds. What a handler does to managed
objects is in `BtsNm`; here a request is counted. `REQUEST` stands for those that are answered in the buffer;
pings, `SW_ACT_REQ_ACK` and RSL data stay there as they came (`Plain`), and so does the manufacturer's message when
its answer cannot be sent (`bts_nm.c:1368`). `sent`, `handled`, `short` and `requests`
are history variables. `AttrList` has the sizes by which each attribute moves the walk, and the length in 8
bits (`Size8`); the cell's identity does not load the next identifier, as in the code.

### `TrxServer`: the transceivers (`src/trx_init.c`)

| Model | Code |
|---|---|
| `fd[i]`, `i` in `Slots` | `trx[i].socket.fd`, `None` for -1 |
| `Listen`, `Oml` | `trx_socket`, and the O&M link registered beside it |
| `pending` | the kernel's listen queue; `"gone"` is a peer that gave up before it was accepted |
| `rx[f]` | what descriptor `f` has to read; `"empty"` is a message whose header says length 0, `"closed"` the end of the stream |
| `held` | which of the two buffers, `pmsg_trx` of the slots and `pmsg` of the links, has ever held a message |
| `running`, `NeverReturns` | `receive_msg` does not come back: a ping ends the program (`bts_nm.c:213`), a list of attributes is walked for ever (`:896`), or SIGPIPE |
| `TrxCb`, `LoseConnection` | `trx_cb`; `receive_msg` returns 0 for `"closed"` and for `"empty"` |
| `TurnedAway`, `AcceptFails`, `Connected`, `RegistrationFails`, `WriteFails` | the ways through `accept_connection` |

`receive_msg` dispatches what the buffer holds, also where nothing or only a header was read: then it is what the
buffer held before, so `NeverReturns` is possible wherever `rx` has a message or `held` its buffer. Otherwise
the handlers change nothing of the server. A new connection gets the lowest free descriptor, as POSIX has it, so numbers are reused within a
pass. `failing` says which calls may fail in a behaviour, and is one of the sets of `FailureModes`.

### `Timers` and `AlarmClock` (`lib/timer/timer.c`)

`timer_list` and the three flags are the code's. `pc` says where the loop is: `loop` (between
passes, where descriptors' callbacks run), `select`, `update` (the walk that fires), `remove` (the walk
that unlinks). `Schedule` is `schedule_timer`, or a timeout filled out by hand and `add_timer`; users
call it and `DelTimer` from any callback, that of the timer itself among them. No part of softBTS
sets a timer yet, so the calls are arbitrary, the timeout 0 among them (`Moments`). `alarm` and `fired` are history variables. The
abstract `AlarmClock` knows only when each timer is to ring and who is being rung.

### `VtySession` and `ConfigMutex` (`lib/vty/telnet_interface.c`, `vty.c`, `command.c`)

| Model | Code |
|---|---|
| `node[s]`, `config[s]`, `status[s]`, `fail[s]` | the fields of `struct vty`; `"CLOSED"` when there is none |
| `vty_config`, `no_password_check`, `advanced` | the globals; `host.advanced` |
| `password`, `enable` | `"unset"`, `"plain"` (`host.password` set), `"hidden"` (only `host.password_encrypt` set, by `password 8 ...`) |
| `reading` | the session in `vty_read`, which handles all that one `read()` returned before anything else runs |
| `VtyRead`, `Input`, `ReadEnds` | `read()`; a line, ^C, ^D or ^Z; the test of `status` at the end, which alone closes a session |
| `CmdExecuteReal(s, n, m)` | the commands, executed in node `n`, leaving the session in node `m` |
| `CmdExecute` | `cmd_execute_command`: in the own node, as `do` in the enable node, or in the parent node |

What commands only print is left out. `VTY_CRYPT_PW` is defined in no build, so a hidden password is never
compared with and cannot be typed. `Hangup` is the operator's client. `MaxFail` bounds failures in one
read, which goes on after the third.

`ConfigMutex` knows whose turn it is, who may configure, and the settings; `Holder`, the session
whose `config` is set, maps to the second.

### `Commands` (`lib/vty/command.c`, and the keys in `vty.c`)

| Model | Code |
|---|---|
| `node`, `line`, `space` | `vty->node`, the words of `vty->buf`, the empty word that `cmd_make_strvec` callers append |
| a command | a sequence of places, each a set of alternatives (`struct desc`) |
| `Completes`, `Equals` | the matching of one word in `cmd_filter_by_completion` and, strictly, in `cmd_filter_by_string` |
| `Filter`, `Best`, `Ambiguous` | the commands the two leave, the best match they return, `is_cmd_ambiguous` |
| `Matched`, `Verdict` | the loop over the words, and what `cmd_execute_command_real` and `_strict` make of what is left |
| `ExecutedHere`, `FallsBack`, `CmdExecuteCommand` | the `do` shortcut and the own node; whether the parent node is tried and runs the line; both |
| `Described`, `Completions`, `Lcd` | `cmd_describe_command`, `cmd_complete_command`, `cmd_lcd`; `DescribedAfter` and `CompletedAfter` are what they show once the words before are matched |
| `Printed` | what `vty_describe_command` may print of it: a set of possible answers |
| `Type`, `TypeSpace`, `VtyCompleteCommand`, `VtyExecute` | the keys |

`cmd_vector` is a copy of a node's commands in which the code clears slots: the set of those left. `MCCommands`
holds the commands installed in VIEW, ENABLE, CONFIG and VTY, each word by the letters that tell it from
others in its place (`e c`, `e n a`, `e n d`, `e x` for echo, enable, end, exit). RETURN may lead to any node;
which it is, is in `VtySession`. Behind a variable number of words `cmd_describe_command_real` returns without
assigning `*status` (`command.c:1602`), and `vty.c:1019` tests what the stack held: there `Printed` has two answers,
the list and nothing.

What `CmdVec` may be is assumed, and TLC evaluates the assumptions on the commands installed: no word that stands
in a place with others begins another (`PlacesAssumption`), two commands differ in a word that they must have
(`DifferAssumption`: as `show history` and `show version` do, and `list NAME` and `list LINE` would not), options come last
(`OptionsAssumption`), ranges in one place have no number in common (`RangesAssumption`). `OthersAssumption` says of
`Others`, the words typed that are names and numbers, that they abbreviate no word of a command.

### `OutBuffer` and `ByteStream` (`lib/vty/buffer.c`, `client_data` in `telnet_interface.c`)

| Model | Code |
|---|---|
| `chunks`, `data`, `sp` | the list of `struct buffer_data`; `cp` is the length of `data` |
| `type`, `flags` | `SOCKET_FD_READ` and `_WRITE` in `connection->fd.type`, and what `select()` found of them |
| `pc` | where the program is: `create`, `select`, `toread`, `read`, `flush`, `writev`, `free`, `closed` |
| `BufferPut`, `FlushAll`, `Written`, `FreeWritten`, `RoundEnds` | a round of `buffer_put`, of `buffer_flush_all` and of the two loops of `buffer_flush_available` |
| `NotWritten`, `WriteError`, `ReadInterrupted` | `EINTR` and `EAGAIN`, a failed `writev`, an interrupted `read` |
| `Greeting` | `print_message`, which writes to the socket directly |

Bytes are numbered in the order in which they are put. The peer takes bytes off the socket, types and leaves
between any two rounds. `ByteStream` knows what is on its way and what arrived; the bytes already written
whose chunks are not freed yet (`written`) are what the refinement leaves out of the queue.

### `Daemon` (`src/softbts.c`)

| Model | Code |
|---|---|
| `path`, `data`, `lock` | what the lock file's name leads to, what is written in an inode, who holds its lock |
| `Open`, `Lock`, `Record` | `open(O_CREAT)` without truncation, `lockf(F_TLOCK)`, the pid written |
| `KillBackground`, `Fopen`, `Fscanf`, `Unlock`, `Remove`, `Kill`, `Fclose` | `softbts -s`, or a daemon that gives up: `kill_background`, system call by system call |
| `Dies` | a kill or an error at any moment; locks are released, the file stays |

An inode is named after the process that created it, numbers are sequences of digits, and writing over a file
leaves what was longer (`Over`). No step depends on `calm`, a history variable that turns false when a start
overlaps a stop, a stop is cut short by a death, or a stop has killed and a BTS goes on. Afterwards two BTS may run,
which section 6 describes, and `OneDaemon` and `FileNamesDaemon` say nothing.

### `LineEditor` and `EditedLine` (`lib/vty/vty.c`)

`buf` is the array with its NUL bytes, `cp` and `length` are the code's, `hist`, `hp`, `hindex` the ring. Each
action is a key, with its byte moves as one function; only ESC d (`ForwardKillWord`, `KillRound`) is
followed round by round. `auth` says that the session is at a password, where deleting does
nothing. Lines stay below `BufSize`, so `vty_ensure` never acts. The abstract `EditedLine` is the text
before and after the cursor and the list of the last lines; the refinement reads them off array and ring.

### Proof and MC modules

`OmlStartupProofs` (of `BtsNm` too), `StreamProofs` (`OutBuffer` and `AbisLink`), `MainLoopProofs` (`AnyCallbacks`
and `Timers`), `TrxServerProofs`, `DaemonProofs`, `TerminalProofs` (`VtySession` and `LineEditor`),
`CommandsProofs` and `LinkedListProofs` hold the theorems. Modules that share a proof module have no name in common,
so `AbisLink`, `AnyCallbacks` and `LineEditor` call their specifications `AbisSpec`, `CallbacksSpec` and
`EditSpec`; the `MC...` modules are what TLC runs on. Deadlock
is checked in `vty`, `editor` and `commands`. Elsewhere the system may stop: a BTS that ended itself takes no more
steps, a BSC, transceiver or timer's user may have nothing left to say, a connection or process has ended.

## 4. Runs

| Run | Bounds | What it shows |
|---|---|---|
| `any_bsc` | 2 timeslots and one beyond them, a known state and an unknown one; one message in flight; not continued beyond one object that has left its first state, nor beyond states without a name | `OneAckPerRequest` for every message: running on through the branches, which test the overwritten buffer, never leads into another object's branch, and only a write beyond the arrays can keep an answer back |
| `startup` | 3 timeslots, 1 ping, 1 repeated start; streams unbounded; fairness | order, `TransceiverLast`, `EnabledIsUnlocked`, `RslLast`, `ViewAgrees`, `StartsOnce`, and the refinement of `ObjectStartup`, under every interleaving of the two programs; `ComesUp`: service is reached and kept |
| `abis_link` | 2 messages of every kind in any pieces, lists of 2 and 3 attributes; fairness | `InStep`: limits and order of messages; `NoRequestTwice` and `BothServed` though a closed link stays in the loop; `AttrsWalked` |
| `event_loop` | 4 connections, 4 descriptors | callbacks that open and close connections, two at once too: starting anew skips nobody |
| `trx` | 2 slots, 5 descriptors, 4 peers, 2 messages; a write may fail, or accept, registration and a write; fairness | `WalkIsSafe`, `SlotsAgree`, `NoLeak`, `ReadsetIsFresh`, `TurnedAwayOnlyWhenFull`, and `Served`: all that arrives is read and every peer is answered, for as long as `receive_msg` comes back |
| `timers` | 3 timers, 3 ticks, 4 calls, timeouts 0, 1 and 3; fairness | flags and list agree, `OnlyZeroOversleeps`: the sleep ends in time for all timers, and not at all when one is asked for at 0; one firing per pass, the refinement of `AlarmClock`, `NoneLost` |
| `vty` | 2 sessions, 4 failures; fairness | `LockAgrees`, `FailuresAgree`, the refinement of `ConfigMutex`, and `LockComesBack`: a lost connection gives the lock back |
| `editor` | 2 letters and the space, lines of 4, ring of 3 lines of 1 | the array stays a C string; the refinement of `EditedLine` |
| `commands` | the commands installed, lines of 4 words, all abbreviations, of the parent node's words too, and 3 other words | `DescribedIsAccepted`, with its two exceptions, `NothingIsGuessed`, and `CompletionKeeps`: TAB decides nothing |
| `out_buffer` | chunks of 3 bytes, 2 of them or 6 bytes per `writev`, a socket of 4, 7 bytes, 1 read; fairness | `NothingForgotten`, the refinement of `ByteStream`, and `AllWritten` |
| `daemon` | 3 processes numbered 10, 9 and 90; fairness | `OneDaemon` and `FileNamesDaemon` while it is `calm`, and `StopEnds`: a stop that finds the file of a BTS with its number alone ends it, whatever starts and deaths fall between its steps |
| `editor_hang` (violated) | lines of 2 | ESC d in front of a character of a password never ends |

Type invariants are not run but proved (section 5), where there is a proof.

Why the bounds are enough. The code tells apart timeslot 0 (initialised), timeslot 7 (last) and the
others, so three timeslots have one of each and two have the two special ones; what happens per
timeslot is otherwise a `for` loop. A ping and a repeated start may fall at any moment of the
start-up, the second identity request too. In `any_bsc` the handlers do not depend on how many objects are started, only on the one they name, and on stored
states only in what they report; a timeslot beyond the last is any byte that the arrays have no element for. In the event loop four entries are two
consecutive ones to remove, the caller, and one to be skipped or registered meanwhile. In `trx`
two slots are one in use and one free or turned away from; four peers fill them, overflow them and
refill them; two messages are one that stays in the buffer and an empty one dispatched over it; five descriptors are those of the O&M link, the listening socket, the slots and a peer that is
turned away, so that a new one reuses what was just closed; with "accept" `accept` fails at any time. Three timers are the one that fires, one its callback
deletes and one it schedules. Two terminals are the one that holds the lock and one that wants it or
leaves; 4 failures are one more than any branch counts, twice. Four characters hold two words and the
space between, and every move of bytes with one before, at and behind the cursor; a ring of three
fills, wraps and forgets. Two messages on the links are one that is read and one that follows it in the same
stream or comes through the same buffer on the other link, split at every byte; the lists have attributes of
fixed size, with a size of their own, unknown, and the cell's identity; `BufferLength` is
longer than any message and `MaxRounds` than any list, so that the bound stops only walks that are lost. Four words are the longest command, and
`do` with a command of three; the other words are a name, a number within
a range and one outside of it. Seven bytes of output fill two chunks and begin a third, which one `writev` cannot
take and a socket of four cannot hold; the read puts bytes behind a part already flushed. Three processes are
a BTS, a start that is refused or finds the file of one that died, and a stop, or two stops; 9 written over 10
leaves 90, which is another process. The theorems of section 5 hold for every bound.

`ComesUp` excludes two outcomes that the code allows and the run without the exclusion shows: a ping
ends the program, and an identity request of the RSL link is read first, so that the report and
the request that start everything go out on the link on which the BSC expects no O&M.

`Served` ends where the program does: a ping, a list of attributes and an answer to a closed peer may each keep
`receive_msg` from coming back (`running`). It excludes a list with a closed descriptor in it (`Dead`): when the identity request cannot be
written, `accept_connection` closes the socket and leaves it registered (`trx_init.c:131`), `select()` fails
from then on and nobody is served. It also excludes waiting peers while no descriptor is free or while
`accept` or the registration fails.

`InStep` and `NoRequestTwice` speak of links of which no read was short, because after a short read the code takes
the rest of a message for the next header; `BothServed` speaks of the others too, and leaves out a program
that has ended, by a ping or an answer to a closed link, or is lost in a list of attributes it cannot walk.
`NoRequestTwice` is about requests that are answered in the buffer: the messages that stay there are handled again,
to the same effect. `AttrsWalked` is about lists of known
attributes with the cell's identity last. `TurnedAwayOnlyWhenFull` holds while no registration fails.

`OneDaemon` and `FileNamesDaemon` have the condition `calm`, and they need each part of it: without it TLC finds two
BTS after a start between `remove` and `kill` of a stop, and after a stop that was killed there. `FileNamesDaemon` says
that the number stands first in the file; that it stands there alone needs that no BTS with a longer
number was killed, because `open` does not truncate (`softbts.c:409`). `StopEnds` does not need `calm`: its condition is
what the stop finds in the file. Where it finds more digits, it removes the file and kills nobody or somebody else.

`OnlyZeroOversleeps` and `NoneLost` name the timeout 0 as the one exception. `DescribedIsAccepted` names two: a line that
fails in its node and runs in the parent's (`FallsBack`), of which `?` shows nothing, and a line behind a
variable number of words, for which nothing may be shown (`Withheld`).

**Fairness.** In `startup`, `socket_select_main` serves every readable descriptor in each
pass, so handling a message of each link is weakly fair; the BSC is assumed to read what it is
sent and to ask for the identity once per link. Pings and repeated starts are not fair. In `trx` only `Loop` is
weakly fair: `main` calls `socket_select_main` for ever. In `timers` the clock and the pass are weakly fair, and the end of the
sleep strongly, because a signal may interrupt `select()` again and again but not each time; no
descriptor has to become readable. In `vty` the end of a read is weakly fair, because it is at most 512
bytes, and the read of each session strongly: a pass serves every descriptor that is ready, and one at
its end stays so. In `abis_link` `main` gets to its loop, callbacks return and
reads of the body and rounds of the walk follow (weakly fair); the read of each link is strongly fair, because a pass
serves every readable link, in an order of its own, and the other link's callback may run first each time. Bytes
need not be delivered. In `out_buffer` the program goes on (weakly fair); `read` and `writev` may be interrupted again
and again but not each time (strong fairness of `VtyRead`, and of `Written` or `WriteError`); the peer
reads what it is sent. In `daemon` a system call that was begun ends; nobody has to start, stop or die. In
`editor_hang` the one thread goes on.

## 5. Proofs

For every `LastTs` in 0..254 (`LastTsAssumption`; 255 is the timeslot of objects that have none),
every set `Requested` of administrative states (`RequestedAssumption`), every set `NamedTs` of bytes that messages
have for a timeslot (`NamedTsAssumption`) and, in the composition, every number of
pings and repeated starts (`BudgetAssumption`), with UNLOCKED among the states requested
(`UnlockAssumption`):

| Theorem | Statement |
|---|---|
| `BtsTypeCorrect` (`OmlStartupProofs`) | `AnySpec => []AnyTypeOK` |
| `AcknowledgesOnce` | `AnySpec => OneAckPerRequest` |
| `TypeCorrect` | `Spec => []TypeOK` for the composition |
| `MessagesAreCaused`, `ComesUpInOrder` | `Spec => []CausalOrder`, `[]StartupOrder` |
| `TransceiverComesUpLast`, `RslIsConnectedLast` | `Spec => []TransceiverLast`, `[]RslLast` |
| `StartedIsUnlocked` | `Spec => []EnabledIsUnlocked` |
| `StartsUpOnce` | `Spec => StartsOnce` |
| `StartsObjectsInTurn` | `Spec => ImplementsLifeCycle` |
| `BscKnowsTheState` | `Spec => []ViewAgrees` |
| `LinksStayInStep`, `NoRequestIsRepeated` (`StreamProofs`) | `AbisSpec => []InStep`, `[]NoRequestTwice` |
| `NothingIsForgotten` | `Spec => []NothingForgotten` |
| `OutputIsAByteStream` | `Spec => ImplementsByteStream` |
| `NobodyIsSkipped` (`MainLoopProofs`) | `CallbacksSpec => []NobodySkipped` |
| `ServerTypeCorrect` (`TrxServerProofs`) | `Spec => []TypeOK` |
| `SlotsAlwaysAgree`, `WalkAlwaysSafe` | `Spec => []SlotsAgree`, `[]WalkIsSafe` |
| `NeverLeaks`, `ReadsetAlwaysFresh` | `Spec => []NoLeak`, `[]ReadsetIsFresh` |
| `OnlyFullTurnsAway` | `Spec => TurnedAwayOnlyWhenFull` |
| `FlagsAlwaysAgree` (`MainLoopProofs`) | `Spec => []FlagsAgree` |
| `FiresOncePerPass` | `Spec => OncePerPass` |
| `TimersAreAnAlarmClock` | `Spec => ImplementsAlarmClock` |
| `OnlyZeroMakesItOversleep` | `Spec => []OnlyZeroOversleeps` |
| `FileIsOwned` (`DaemonProofs`) | `Spec => []DaemonInv` |
| `NoSecondDaemon`, `StopFindsDaemon` | `Spec => []OneDaemon`, `[]FileNamesDaemon` |
| `SessionTypeCorrect`, `LockAlwaysAgrees`, `FailuresAlwaysAgree` (`TerminalProofs`) | `Spec => []TypeOK`, `[]LockAgrees`, `[]FailuresAgree` |
| `SessionsExclude` | `Spec => ImplementsMutex` |
| `BufIsAlwaysLine` | `EditSpec => []BufIsLine` |
| `LineIsEdited` | `EditSpec => ImplementsEditedLine` |
| `LineTypeCorrect` (`CommandsProofs`) | `Spec => []LineInv` |
| `NothingIsEverGuessed` | `Spec => []NothingIsGuessed` |
| `WhatIsDescribedIsAccepted` | `Spec => []DescribedIsAccepted` |

**Handlers and causes.** `OmlStartupProofs` first follows a handler through the branches. A branch is passed when the
buffer names another class or a `break` was reached, and taken otherwise (`ActivatePassed`, `ActivateTaken`); what each
branch leaves in the buffer and whether it breaks is a lemma (`ActivateAt`, `StartAt`), and from these follows
which one branch answers each object, and all it sends (`ActivateSwSends`, `OpstartSends`). These answers
are then typed (`AfterActivateSwType`, ...), with the place of the acknowledgement in them (`Acked`), which gives
`OneAckPerRequest`; then every handler is shown to preserve the type, one case per action. `HandlerStep` is about
objects that the BTS has, and the composition reuses it; `BeyondStep` is about timeslots beyond the arrays, where
`WriteBeyondType` says that states and flags stay within the values they are given by `WriteBeyond`: `BtsTypeCorrect`
is as strong as that assumption about the build, and says nothing of a program that is lost. `StartupOrder` relates
stored states only and is not inductive: whether a start may arrive depends on what is on its way. `CausalOrder`
adds that. It says of each message of the procedure, once it exists, that its cause exists, from "an object is
enabled" through "its start was ordered", "it waits for its start", "its software was activated", "its activation
was requested" back to "the object before it is enabled". As causes are never taken back, it needs no order of
the streams, so it would survive reordering and duplication. `Provoked` is the same in general form: each
message has a request behind it that causes it, each request a message that provokes it.

**Order of the streams.** The rest of the start-up does need the order. `OmlStep` says once what any step does to
the two O&M streams: an answer to the front of one is added to the end of the other, or the BSC adds what it
says on its own. `Leads(s, c, d)` says that a `c` stands before every `d` of the stream `s`, and `InOrder`
that a step keeps it, or has handled `c`, when whatever adds a `d` adds a `c` before it.

* `TransceiverLast`: `InLine(c)` follows timeslot `c` through the four crossings: it has come so far, or it
  stands before the last timeslot in the stream that the last one is in.
* `RslLast`: `TransceiverInLine` says that of the starts of the two halves and the connection of the RSL link.
* `EnabledIsUnlocked`: `UnlockedFirst` says that an object not yet unlocked has its unlocking before every start
  on the stream.
* `StartsOnce`: `NotBegun` says that nothing of the procedure exists until the identity response is received.
* `ImplementsLifeCycle`: the stage of an object is read off what was said and stored, so `Acknowledged` ties
  what is active and enabled to the requests that are then made: the turn of the next objects comes in the very
  step in which the one before them moves (`Moves`), as in the abstract `Advance`.
* `ViewAgrees`: while reports are on their way the picture may be old, and become old again. `Informed` says of
  each object that the start-up is still rising (an order or a report it goes on with is in flight), or that
  picture and object agree (the picture is right or the report that the object is up is on its way, and no other
  report of it is behind that one). So that an object is not left behind when the last timeslot
  is through, `Following` adds to `InLine` that nothing about a timeslot travels *behind* the last one's message
  in the same crossing or an earlier one.

TLC checked these invariants with three timeslots and two repeated starts before they were proved.

**Links** (`MessagesAssumption`, `BufferAssumption`). `StreamsInv` has at its centre
`Kept(l)`: what was sent on a link is what was handled followed by a rest, and `Stage` says what of the rest is
on the stream: all of its bytes, or all but the header that `receive_msg` has read, with the header in the
buffer. The rest is a witness and not a state variable, because the model, like the code, does not keep it. With
`OneAtWork` (the other link's read cannot come between a header and its body, since the body is read in the same
callback) this gives `InStep`. `NoRequestTwice` needs `RequestsInv` in addition: requests are numbered in the
order sent, only what was handled was carried out, and what the shared buffer holds between two callbacks is
never a request (`Spent`), because the reply has overwritten it; the messages that stay there are of other types. TLC checks both invariants with two messages in
any pieces.

**Output** (`SizeAssumption`, `WritevAssumption`, `SocketAssumption`). `OutInv` has three parts: the chunks
(`ChunksOK`), what is written and not yet freed (`CountsOK`), and the wishes of the connection (`AsksOK`);
`PutRound` and `FreeRound` follow a round at either end of the list. For the refinement `StreamInv` adds that what
arrived, what the socket holds and what the chunks still hold are the numbers 1 to `put` (`Numbered`). The
chunks are read off as one sequence by `FlattenSeq`, which the community modules define by a recursive function;
its unfolding is proved by looking at the least place at which it would be wrong. `Content` of a list to
which a chunk is added, or whose first chunk is freed or written in part, follows.

**TRX server and loop.** `TrxServer` is proved for every number of slots, peers, messages and descriptors
(`MaxTrxAssumption`, `EntriesAreThese`, ...) and every failure. `SlotsAgree` needs to know where a new descriptor
number comes from: the lowest that is not open is nobody's only if every watched one is open, and a failed write
breaks that. `AcceptIsSafe` is what saves it: as long as the listening socket can still be called in this
pass, every watched descriptor is open, because `select()` has succeeded at its beginning and its bit
is cleared before the one call that may fail. A registration that fails leaves a number in a slot
that is not registered; `SlotsAgree` says so, and `FindsOne` shows that a callback then either finds its own slot
or ends the program. The absence of leaks, fresh bits and `TurnedAwayOnlyWhenFull` follow by a second look at each
action. `NobodySkipped` is proved of the loop under the callbacks of `AnyCallbacks`: `AnyInv` carries it through
the pass, as "an entry that was readable and has been passed has had its bit cleared", across the removal of the
next entry and across the walk that starts anew.

**Timers** are proved for every set of timers, delays and moments. `TimersInv` adds to types and
`FlagsAgree` that fired timers are marked as handled during the walk, that the time compared
with is not ahead of the clock, and that callbacks run in no other place; from these the
refinement and `OncePerPass` follow. For `OnlyZeroOversleeps` the look of `select()` at
the list is the one interesting step (`SelectKnowsTheNearest`): what is on the list is what is asked for
(`AskedIsListed`), and the nearest time is the least of it (`NearestIsLeast`), so it is 0, the mark of an empty list,
exactly when some timer is asked for at 0. No assumption is made about the times.

**Daemon.** It is proved for any processes with numbers that are not empty (`PidAssumption`) and differ, over all
behaviours. `DaemonInv` has a part that always holds and one that holds while it is `calm`. The second, `CalmInv`,
follows the file rather than the daemon: whoever is between `open` and `lockf` has the file open that the
name leads to (`StartersOpen`), a daemon's number stands first in that file and its lock is the daemon's until it
gives it back (`DaemonOwns`), and whoever stops has read a number that begins so (`StopperReads`). So a second start meets
the lock. Of the first part, `LengthsKnown` says that a file holds no more digits than the number of somebody who
recorded one: nothing truncates it, so what follows a daemon's number is left of a BTS that was killed, with
a longer one. What the three theorems do not say is what happens once a start and a stop have overlapped, or a stop
has missed (section 6).

**VTY sessions** are proved for every number of sessions (`NobodyAssumption`). `LockAgrees` is inductive with the
types: `StepMoves` shows that each action moves its session to some node and keeps, takes or frees the lock
in accord with that node, and `MovesAgree` that such a move preserves the agreement, whatever the other
sessions are. The refinement follows from `HolderMoves`. `FailuresAgree` needs `FailInv`, which also says
that fewer than three failures are counted during a read unless the session is to be closed.

**Line editor.** It is proved for every size of buffer and ring and every alphabet without NUL
(`SizesAssumption`, `CharsAssumption`); that a NULL pointer is not a line (`HistoryAssumption`) is what tells the free
slots of the ring from the others. `EditorInv` adds to the line that the ring holds lines shorter than the
buffer, which recalling one needs; `CStringIsLine` shows that what is copied into the ring is one, because
the first NUL is at `length`. For the refinement, the bytes before and behind the cursor are sequences (`LeftOf`,
`RightOf`) that together are the line (`SidesMeet`), and each kind of key is one relation between the bytes before
and after it: `Shortened` for everything that deletes, `Grown` for what inserts, `Exchanged` for what
transposes. `RingInv` is what the history needs: the ring is filled from its first slot on, and once `hindex` has
come round no slot is free. So the lines remembered are read off it from the slot `hindex` or from the first one
(`RecentIs`), and a line that is written into the slot `hindex` goes to their end (`RingAdds`), the oldest falling out
when the ring is full.

`LinkedListProofs` has the lemmas that `TrxServer`, `EventLoop` and `Timers` rest on: what linking and unlinking
do to the entries of a list, to its order and to its being free of repetitions.

**Commands** are proved for all commands that the assumptions of section 3 allow, all words and lines of any
length. The rounds of `Matched` are a recursive function, and `ByCounting` is the induction over it: a set of numbers
that has 0 and is closed under successor has them all, because a least number outside of it could not be
(`NatLessThanWellFounded`). `MatchedIsLast` makes the rounds a function `f` with `f[k + 1] = Round(.., f[k], ..)`, so
that each fact about a line is a lemma about one round and one use of `ByCounting`.

* `LineInv`: the words of a line are not empty. TAB could write an empty one, as `password (8|) WORD` has one; but
  where one may stand another word may (`PlacesAssumption`), so one completion alone is never the empty word, and of
  several what they have in common must be longer than what was typed.
* `NothingIsGuessed`: the line is run by the node or, where that fails, by the parent node (`WhereItRuns`), and the
  argument is about whichever of the two it is. A round in which a word is typed in full leaves the commands that have it (`ExactRound`), and one
  in which it is abbreviated and not ambiguous leaves those that have the one word meant (`PartlyRound`). So for the
  command that runs, a round over the abbreviation and a strict round over the word written out leave the same
  (`WrittenRound`, `WrittenOutMatches`), and a command that began with the same words and has another meaning for the
  next one would have made it ambiguous (`MeansNoOther`).
* `DescribedIsAccepted`: any two commands that are left after `k` words are `Alike` in these `k` places
  (`AlikeRound`, `AlikeRounds`). By `DifferAssumption` no two are then complete (`OneIsComplete`), and behind a
  variable number of words only one is left (`VarargIsOne`): where `<cr>` is shown the line is no longer
  ambiguous (`CompleteRuns`). That whatever is shown is accepted (`OfferedIsAccepted`) needs `RangesAssumption` and
  `OthersAssumption`: a number is in one range only, and a name is no abbreviation. What is left after a word had
  an alternative for it (`LeftCompletes`), which therefore was shown (`NextWasShown`). `PrintedHere` keeps apart the two
  answers behind a variable number of words, and `WhereItRuns` what the parent node runs: these are the two exceptions,
  and no more is claimed about them.

**Checked by TLC only.** `CompletionKeeps`: `Open` counts commands the rounds have dropped (a name is dropped where a
word is typed in full), so that they stay the same when a word is written out depends on what words of different
commands have in common, command by command; an assumption that excluded the bad cases would say what the property
says, and the run has all the commands there are. The liveness properties `ComesUp`, `BothServed`, `AttrsWalked`,
`Served`, `NoneLost`, `LockComesBack`, `AllWritten` and `StopEnds`: liveness under fairness is out of the prover's
reach.

## 6. Disagreements found

ESC d at a password loops for ever (`vty.c:838`), and with it the whole program (`editor_hang`).

Seen while modelling, without a run of its own. In the start-up and on the links:

* The timeslot of `OPSTART` and of a change of state indexes arrays of eight unchecked (`bts_nm.c:1172, 1343`), and the
  state is stored as it comes (`bts_nm.c:649`) and reported later.
* `softbts_msg` tests a return code that was never assigned after the pong (`bts_nm.c:213`); the message it
  may print says that `send()` failed.
* `receive_msg` returns 0 for a closed connection and for an empty body (`bts_nm.c:198`), so that a transceiver
  that sends one is disconnected.
* A short read of a header is not even reported; what follows is dispatched with what the buffer held.
* A link closed by the BSC stays registered and is read in every pass (`bts_init.c:73`); an answer written
  to it may end the program by SIGPIPE, which it does not catch.
* When `kill_background` finds no lock file it returns, and `socket_init` registers a socket that is not
  connected.
* An attribute the switch of `bts_get_attr` does not know, and one longer than what is left, may make its loop
  endless (`bts_nm.c:895`); the cell's identity does not load the next identifier, and is walked over again
  if anything follows it.
* The attributes of channels and of the radio carrier are loaded into locals and forgotten (`chan_get_attr`,
  `radio_get_attr`).
* A slot whose registration failed keeps its number and is lost (`trx_init.c:125`).
* `rest_octets_si3` reads `octets` and `poii`, which it never assigned (`abis_rsl.c:276`): what it computes is
  undefined.
* The channel arrays name element 0 only (`softbts.c:51`): the initial report says DISABLED and LOCKED
  (`bts_nm.c:543`) of timeslots that hold neither.
* `NM_MT_SET_CHAN_ATTR` and `NM_MT_SET_RADIO_ATTR` are answered with `NM_MT_SET_BTS_ATTR_ACK` while the traces
  (`bts_nm.c:1284, 1297`) name an acknowledgement of their own kind.

In the loop and the timers:

* The walk starts anew after more than one removal (`select.c:130`); one is enough to make it unsafe when it
  is the next entry and not the caller's. No callback does that today, and the callbacks of `AnyCallbacks` do not.
* The timeout 0 doubles as "no timer" (`timer.c:86`): `select()` sleeps until a descriptor becomes readable, whatever
  other timers are asked for, while `timer.h:38` promises that a passed time fires at once. `OnlyZeroOversleeps` says so.
* The comment at `timer.c:79` has `nearest_timer` return NULL for a timer that has timed out; it returns a
  zero `timeval` (and NULL would be wrong).

In the daemon (with `calm` taken out of `OneDaemon`, or `NamedAlone` weakened to the lock in `StopEnds`, TLC shows them):

* A stop removes the file before it kills whom it names (`softbts.c:287, 291`). A BTS that is started in between has a
  file of its own, finds its lock free and runs beside the other; if the stop is killed there, both stay. `daemonize`
  takes the lock for proof that no BTS runs (`softbts.c:417`).
* The file is not truncated (`softbts.c:409`): behind a shorter number the digits of a longer one remain, if a BTS with
  that was killed. A stop then removes the file and kills another process, or nobody, with nothing beside it,
  and the next start makes a second BTS.
* A start that overlaps a stop may lock a file whose name is then removed: a BTS without a lock file.
* A daemon that gives up unlocks the file before it removes it, and may remove the name a new start just
  took.
* A stop during a start reads an empty file and does nothing.

In the terminal:

* In the node of `line vty` RETURN runs the commands of the configuration node too (`command.c:2119`), `no hostname` for
  one, while `?` behind `no` shows the words of that node only, where full help "describes each possible argument"
  (`command.c:2426`). `DescribedIsAccepted` excepts such lines.
* Behind a variable number of words, as in `echo x `, the status of the description is unassigned
  (`command.c:1602`, `vty.c:1019`): `?` may say that no command matches a line that RETURN runs. Likewise excepted.
* Backspace at a password moves the cursor back and deletes nothing (`vty.c:798`), so that what is typed next
  is inserted into the password.
* `show history` skips the oldest line when the ring is full (`vty.c:1543`).
* A line that outgrows 512 bytes continues in memory that was never cleared, without a NUL (`vty.c:360`).
* `client_data` tests `conn->vty` after `vty_read` may have freed `conn` (`telnet_interface.c:164`), and
  `telnet_new_connection` stores into it after `vty_create` has closed it (`telnet_interface.c:142`).
* `login` without a password set closes every new session at once (`vty.c:1431`); when the last open one ends
  nobody can log in any more, since no configuration file is read at start.
* What `print_message` writes overtakes what `vty_create` has queued.
* When a write fails the wish to write stays until reading notices the end of the connection.
* `VTY_MORE` is never set (`buffer_flush_window` is compiled out), and `buffer_write`, `buffer_getstr`,
  `vty_out_newline` and `vty_reset` have no callers.
* `password (8|) WORD` has an alternative that is empty, and matches nothing typed; `do` alone is incomplete
  in every node above ENABLE; a command whose last words are optional shows no `<cr>`. The matchers of addresses
  (`cmd_ipv4_match`, ...) serve no installed command.

## 7. Not modelled

* **Failing sends** of the handlers: logged and forgotten; the state has moved on and nothing recovers it. In the
  models a send succeeds, or may end the program when the peer has closed.
* **What lies beyond the channel arrays**: a choice of outcomes (section 3).
* **Values of attributes**: `AttrList` models how the walk moves, not what it loads.
* **RSL decoding** (`abis_rsl.c`, `L3_0408.h`): decodes and prints, keeps no state, answers nothing: a message
  without effect in the models.
* **The BSC**: external; so are transceivers, operators, timers' users.
* **The configuration file**: `config_write_file` and `vty_read_config_file` are never reached (section 2).
* **Terminal**: telnet options, what commands print, echoes, lines that outgrow 512 bytes (`vty_ensure`), a
  connection record used after it was freed, the exception set of `select()`, which nobody uses.
* **Vector** (`vector.c`): sets and functions in the modules of its users.
* **Logger** (`logger.c`): nothing reads what it writes. **talloc** and the rest of `linuxlist`: vendored.
  **Build files**: no behaviour at run time.
