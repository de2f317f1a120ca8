# TLA+ models of go-ircevo

This directory holds TLA+ models of the go-ircevo IRC client library, the TLC configurations that check them, and `PROJECT.json`. `PROJECT.json` has:
- the list of components;
- the runs, with the mutant of the code that each passing property must catch;
- the source lines every definition translates;
- the findings;
- the hazards of the code.

Sources:
- `src/unnamed/part_001` is the newest `irc.go`.
- `src/unnamed/part_003` is the newest `irc_callback.go`.
- `src/unnamed/part_000` is `irc_dcc.go`.
- `src/irc.go` is the main `irc.go`, one revision older than `part_001`. It has no ERROR classifier, no reconnect ceiling, and a `Nick()` without coalescing.
- `src/irc_struct.go` holds the types and, at lines 377-972, the callbacks that go with `src/irc.go`: the registry, `RunCallbacks` and `setupCallbacks`. Lines 973-1334 are an older `irc_callback.go`: the same registry and `RunCallbacks`, and the oldest `setupCallbacks` (1173-1313).

A definition whose code is the same in `src/irc.go` or `src/irc_struct.go` is mapped there in `PROJECT.json`.

## The system

A `Connection` is one client session. `Connect` does the following, in order:
1. Dials the server.
2. Creates `pwrite`, a buffered channel of 10 outgoing lines, and `Error`, a buffered channel of 10 errors.
3. Starts three goroutines:
   - `readLoop` reads lines, parses them into `Event`s and runs the callbacks for each one, one event at a time.
   - `writeLoop` drains `pwrite` to the socket.
   - `pingLoop` sends keep-alive PINGs and, every `PingFreq`, retries a desired nick that differs from the current one.
4. Runs the handshake, `negotiateCaps`: CAP LS/REQ/END, optional SASL, and NICK/USER registration.

Other parts:
- `Loop` waits on `Error`. It classifies each failure with `AnalyzeErrorMessage`, stops the workers by closing `end`, and reconnects.
- `Disconnect`, `Reconnect` and `Quit` are the user's lifecycle calls.
- Built-in callbacks keep the identity state up to date. They are installed by `setupCallbacks` and run under the session lock `irc.Lock`. The identity state is `nick` (desired), `nickcurrent` (believed confirmed), `nickPending`, `nickChangeInProgress`, `nickError` and `fullyConnected`.
- The callback registry is protected by `eventsMutex`. `RunCallbacks` runs the callbacks of one event concurrently, with an optional timeout.
- A DCC CHAT manager keeps a map of chats, each with a reader and a writer goroutine.

## Modules

| module | models | state | actions |
|---|---|---|---|
| `NickTracking` | nick tracking on one live connection, in three revisions, against an IRC server and other users | client fields above plus `registrationSteps`; `unsent` (the NICK a sender computed under the lock but has not yet enqueued); `out` (pwrite + socket to the server); `in` (socket to the reader); `stale` (a callback goroutine of the previous connection still to run); `rev` (the revision); the server's view `srvNick`, `gotUser`, `registered`, `restricted`, `taken` | newest: `Nick(n)`, `PingTick`, `WindowExpires`; main and oldest: `MainNick(n)`, `MainPingTick`; all: `NickSend`, `PingSend`, `ReadLoop` (runs the callback of the line's code, see below), `StaleCallback`, `Server`, `EnvStep` |
| `DCC` | the DCC CHAT manager (`src/unnamed/part_000`) | `chats` (nick -> chat), `made`, per chat `target`, the goroutines `hdl` (accept, then handleDCCChatConnection), `rdr`, `wtr`, the channels `inq`/`inClosed` and `outq`/`outClosed`, `sock` (open, past a deadline, closed), the remote `peer`; the application's call in progress `app`; `panicked` | `InitiateDCCChat(n)`, `Accept(c)`, `ReadScan/ReadSend/ReadEnd(c)`, `WriteLine/WriteEnd(c)`, `HandlerReturn(c)`, `PeerClose(c)`, `SendLookup`/`SendChan`, `GetLookup`/`GetChan`, `CloseDCCChat(n)`, `SetDCCChatTimeout` |
| `MCNickTracking` | constants for TLC and the `NickLenBound` state constraint | | |
| `Session` | the lifecycle: `Loop`, `Reconnect`, `Disconnect`, `Quit`, `SendRaw`, and the three workers of every connection | `endState`/`pwState`/`pw` (the channels currently in `irc.end` and `irc.pwrite`), `conn` (newest connection), per connection `errs[c]` (its `Error` channel), `sock[c]`, `wk[c][w]` (worker positions); `lock`, `loop` (position in `Loop`), `errStr`, `recoverableReconnects`, `sentRegistration`, `user` (application goroutine), `quit`, `panicked` | readers `ReaderTop/Line/Pong/Callback/ERROR/Fail`, writers `WriterEnd/ClosedQueue/Write`, pingers `PingerEnd/Tick/Send/Lock`, `SendNick(c, w)` for both, `LoopTop/Recv/Close/Wait/Quitting`, `ReconnectOK/Fail`, `AppSend`, `DisconnectLock/Finish`, `QuitSend/QuitLock` |
| `MCSession` | sets of ERROR texts for TLC | | |
| `Dispatch` | `readLoop`'s parse-and-dispatch, the callback registry and `RunCallbacks` (`src/irc.go` 100-122, `src/irc_struct.go` 400-569) | `nread`, `line` (the last raw line read); `events` (code -> id -> body), `idCounter`; the reader `rd`, the newest call's code `cur`, its `pending` ids and `ctxDone`; `gst` (state of every callback goroutine) | `ReadLine(l)` (parse, then drop, stop on ERROR, crash, or `RunCallbacks(e)`), `AddCallback`, `RemoveCallback`, `ClearCallback`, `ReplaceCallback`, `CallbackBody/Done/Canceled(g)`, `Expire`, `JoinTimeout` |
| `CallbackRegistry` | what spec 3 and 4.7 promise of the registry and the fan-out, without goroutines or channels | `handlers` (set of code, id, body), `nextId`, `dispatched`, `busy`, `running` (invocations whose callback has not returned), `expired` | `Register`, `Unregister`, `Clear`, `Replace`, `FanOut(c)`, `Drop`, `Finish(t)`, `Expire`, `Release` |
| `Parser` | `parseToEvent` and `unescapeTagValue` (`src/irc.go` 124-188) and the Go string helpers they call, as operators over TLA+ strings; also a reference serializer of the message format (`Wire`) and the code spec 4.7 gives a message (`Meaning`) | | |
| `MCDispatch` | the registered codes, the messages sent and the raw lines the reader may read | | |
| `Handshake` | one `Connect()` attempt of `src/irc.go` after its workers started: `negotiateCaps` and the CAP LS 302/NICK/USER tail, against a legacy, a CAP or a CAP+SASL server | `pc` (position in `negotiateCaps`/`Connect`), `reqCaps`, `capChan`, the registered negotiation callbacks `cbs`, `job` (each copied callback's progress), `saslRes`; `out`, `in`, the reader `rd`/`line`; server `suspended`, `gotNick`, `gotUser`, `welcomed`, `authed` | `NegotiateStart`, `SaslRecv`, `SaslTimeout`, `CapRecv`, `CapTimeout`, `ConnectTail`; reader `ReadLine`, `JoinDone`, `CapCallback`, `CapSend`, `SaslCallback(n)`, `SaslResult(n)`; `Server`, `ServerWelcome` |
| `MCHandshake` | the server kinds | | |

How `NickTracking` corresponds to the code:
- `Nick(n)` is the whole of `Connection.Nick` up to the `Unlock` before its `SendRawf`. `NickSend` is that send.
- `PingTick` is the ticker2 branch of `pingLoop` up to its `Unlock`. `PingSend` is that branch's `SendRawf("NICK")`.
- A callback runs under the session lock, so it is one step. It sends through `Enqueue`, which blocks while pwrite is full, as `SendRaw` does.
- The server follows RFC 2812 and is not code of this repository:
  - It answers NICK with 431, 432, 484 (when restricted), 433/436/437 (when the nick is taken), or acceptance.
  - Before registration, acceptance means 001 once USER has arrived. After registration, it means a NICK event from our old nick.
  - Other users may rename, quit, connect, or get us set to `+r`. Their renames reach the client as NICK events, with the ghost field `own = FALSE`.
- `Init` is the state right after `Connect`: the negotiateCaps branch with no capabilities has queued NICK and USER.
- Two revisions of the identity code are modelled, and `rev` picks one per behaviour:
  - newest (`part_001`, `part_003`): `Nick` coalesces inside its 30 s window, the ticker sends NICK after its `Unlock` (`PingSend`), and the rejection handlers retry only when the rejected nick is the desired one, registered or not;
  - main (`src/irc.go`, `src/irc_struct.go` 576-932): `MainNick` sets `nick` and then sends; `MainPingTick` sends PING and, holding the lock, the NICK for the desired nick; the rejection handlers (`MainOn433/437/431/436`, `MainOn432`) retry from `nickcurrent` whatever nick was rejected, but only while `!fullyConnected`; `MainOnNick` moves the desired nick only if it had not diverged; PING after 001, JOIN/PART by `nickcurrent`, MODE on `nickcurrent` or a channel, and any PRIVMSG set `fullyConnected`.
  - oldest (`src/irc_struct.go` 1173-1313, with the `Nick()` and `pingLoop` of `src/irc.go`, the only ones that fit its fields): `OldOn433/437/431/436` and `OldOn432` retry from `nickcurrent` only while `!fullyConnected` and record no error; `OldOnNick` sets both `nickcurrent` and `nick` to the new nick; `OldOn001` sets `nickcurrent` and `fullyConnected` and keeps the desired nick; `OldOnPing` answers PONG. There are no 002-005, MOTD, JOIN, PART, MODE or PRIVMSG handlers.
  - Shared by newest and main: `On001` (sets `registrationSteps` to 1), `RegistrationStep` (002-004), `On005`, `OnMotdEnd` (376/422), `On484`, `OnPong`, and `OnPing`, which answers PONG.
- `StaleCallback` is the PRIVMSG callback goroutine of the previous connection that `RunCallbacks` stopped waiting for at its timeout. It runs after the new connection reset `fullyConnected`.
- After registering, the server sends 001, 002, 005 and 376 or 422. 002 stands for 002-004, which run one handler. `ServerTraffic` says which unsolicited lines a run allows: server PINGs (also before the welcome), a PRIVMSG to us, another user's JOIN.
- GetNickStatus's timeout branch (`src/irc.go`:446) needs `fullyConnected` false with `registrationSteps` above 0. No handler produces that state, so it is not an action.

How `Session` corresponds to the code:
- The workers re-read the fields `irc.end` and `irc.pwrite` on every `select`, so only the channel currently stored in a field matters. They captured their socket and `Error` channel when they started, so those are per connection number.
- Closing a closed channel or sending on one sets `panicked`, and nothing moves after it (the process dies).
- A blocking send on `pwrite` (capacity `PwriteCap`) is a guard: the sender waits while the channel is full.
- An ERROR text is the set of pattern families it contains. `AnalyzeErrorMessage` picks the first family in the code's order Permanent, Server, Network, Recoverable, and an unmatched text is Recoverable.
- A reader step that runs a callback taking `irc.Lock` (001, NICK, 433, PING) is split: `ReaderLine` reads and parses the line; the PING callback's `SendRaw(PONG)` before its lock is `ReaderPong`; `ReaderCallback` waits for the lock; the 433 callback then sends the next NICK while it holds the lock (`SendNick(c, "reader")`).
- The pinger's ticker2 branch (`src/irc.go` 243-250) takes the lock (`PingerLock`) and, when `nick` differs from `nickcurrent` (decided in `NickTracking`, a free choice here), sends NICK before it unlocks (`SendNick(c, "pinger")`). The keep-alive PING is sent while the pinger holds `lastMessageMutex`, which the reader needs after every read (`MessageMutexFree`).
- `lock` is "free", "user" (a `Disconnect()` between its two steps) or "worker" (the worker in state "nick").
- `MaxLines` bounds only the lines whose callbacks send (PING, 433). Other lines are unbounded, so a healthy server keeps a connection alive forever.
- `Disconnect` is split at its `Wait()`: `DisconnectLock` takes the lock and closes `end`; `DisconnectFinish` runs once every worker has called `Done()`. `Quit` is split between its `SendRaw(QUIT)` and its locked assignment of `quit`.
- `ReconnectOK` is `Reconnect` plus a `Connect` whose dial succeeds: a new `end`, `pwrite`, `Error` and socket, three new workers, and NICK/USER only when `sentRegistration` is unset. `ReconnectFail` is a failed dial; `irc.end` has already been replaced.
- `Init` is the state after `IRC()` and a successful first `Connect` on a server without CAP, with `Loop` started.

How `Parser` corresponds to the code:
- Strings are TLA+ strings; Go's 0-based index and -1 become a 1-based position and 0. `strings.Index`, `LastIndex`, `Replace`, `Split`, `SplitN(_, _, 2)`, `TrimSuffix`, `HasPrefix` and `ToUpper` (ASCII) are operators of their own.
- `ParseToEvent(raw)` follows `parseToEvent` branch by branch: the two suffix trims, the length check, the tag segment (`TagMap`, with `UnescapeTagValue`'s five replacements in the code's order), the source and its nick!user@host split, and the command split at the first `" :"`. It returns an event record, `Malformed` for an error, or `IndexPanic` where the code reads `msg[0]` of an empty string.
- TLA+ strings have no `\x01`; the models write the CTCP delimiter as `^`.
- `Wire(m)` and `Meaning(m)` are not code: they serialize a message by the format (escaping tag values one character at a time) and give the code spec 4.7 assigns it. `LineDispatchedAsSent` compares the parser with them.

How `DCC` corresponds to the code:
- Every map operation holds `DCCManager.mutex` for its whole body, so `CloseDCCChat`, the accept goroutine's store and the handler's deferred delete are one step each. `SendDCCMessage` and `GetDCCMessage` release the mutex between the lookup and the channel operation, so those are two steps (`SendLookup`, `SendChan`).
- `Accept` is the accept goroutine from `Accept()` to `go handleDCCChatConnection`, plus the handler's start of the reader and the writer (channel creation and `go` statements only).
- The reader blocks on a full `Incoming`; `ReadEnd` is `Scan` returning false after the socket ended. The writer's write fails once our socket is closed or past its deadline, and may fail once the peer closed.
- `HandlerReturn` is the select waking on the first of the two done channels, then the deferred functions in reverse order: `delete(chats, chat.Nick)` (by nick, whichever chat is stored there), then `Conn.Close()`.
- `SetDCCChatTimeout` sets a deadline on every chat in the map and lets it pass; from then on I/O on that socket fails.
- Closing a closed channel or sending on one sets `panicked`, after which nothing moves (the process dies).
- The remote peers (`PeerClose`) and the IRC side of the offer are the environment. `handleIncomingDCCChat` is reachable only from the dead `CTCP_DCC` callback, and `ListActiveDCCChats`/`IsDCCChatActive` change nothing, so they are not actions.

How `Dispatch` corresponds to the code:
- `ReadLine(l)` is one iteration of `readLoop` after `ReadString` returned a line: `parseToEvent`, then nothing on a parse error, a return with the error on `Error` for an ERROR line when `HandleErrorAsDisconnect` is set, and otherwise `RunCallbacks`. A panic of the parser leaves `rd = "crashed"` and nothing moves after it (the process dies).
- The four registry calls are one step each: they hold `eventsMutex` for their whole body.
- `RunCallbacks(e)` covers the CTCP rewrite (an unterminated CTCP line is dropped), the copy of the code's and `"*"`'s callbacks into one map keyed by id, and the start of one goroutine per copied callback.
- A goroutine runs its body (`CallbackBody`; a "blocking" body never returns), then selects between `done <- id` (`CallbackDone`) and the expired context (`CallbackCanceled`).
- `Expire` is `CallbackTimeout` passing; `JoinTimeout` is the join loop taking `<-event.Ctx.Done()` and returning with callbacks still running.

`Dispatch` refines `CallbackRegistry` through `Abs == INSTANCE CallbackRegistry WITH ...`:
- `handlers` is the set of triples of `irc.events`, `nextId` is `idCounter`, `dispatched` is `dn`.
- A fan-out is `busy` while the reader is in the join loop, and `expired` is the context being done.
- An invocation is `running` while its goroutine has not left `cb(event)`. Its later send on `done` or its cancel is a stuttering step.
- `RunCallbacks` is `FanOut` for a rewritten code and `Drop` for an unterminated CTCP line. The last `CallbackDone` of a call and `JoinTimeout` are `Release`.

How `Handshake` corresponds to the code:
- `Init` is `Connect` after the dial: the workers are running and `negotiateCaps` is next.
- `NegotiateStart` resets `RequestCaps`, adds "sasl" when `UseSASL`, registers the CAP callback and sends CAP LS. It returns at once when nothing is requested.
- `SaslRecv`/`SaslTimeout` and `CapRecv`/`CapTimeout` are the two selects with their 15 s timeouts. Every return goes through `Return`, the deferred removal of the negotiation callbacks.
- `ConnectTail` is Connect's CAP LS 302, NICK and USER after `negotiateCaps` returned nil.
- The reader copies the callbacks of a line when it reads it (`ReadLine`). A copied callback still runs after its removal, and the reader waits for all of them (`JoinDone`).
- `setupSASLCallbacks` is not in the source; `SaslCallback` and `SaslResult` model the exchange that `negotiateCaps` expects (AUTHENTICATE, 903/904 on `saslResChan`).

## Runs

| run | cfg | expect | what it shows |
|---|---|---|---|
| nick_registration | `NickTracking.cfg` | pass | all three revisions. `TypeOK`. `ConnectedOnlyWhenRegistered`: however server PINGs (before and after the welcome), PRIVMSGs and JOINs interleave with registration, `fullyConnected` is set only after the server registered the client. `RegistrationCompletes`: with "bob" taken, the rejection retries and the pingLoop retry get the client registered and `fullyConnected` |
| nick_retry | `NickTrackingRetry.cfg` | pass | newest. `DesiredRetried`: a desired nick that differs from `nickcurrent` always gets a NICK on its way again, even after Nick() calls that were coalesced in the 30 s window and whose flag `nickChangeInProgress` is never cleared by a rejection. A late PRIVMSG callback of the previous connection is allowed too and changes nothing in this revision |
| nick_hijack | `NickTrackingHijack.cfg` | violation | newest. `AdoptsOnlyOwnNickChange`: the 433 handler puts the unconfirmed alternative "bob__" in `nickcurrent`; the user who really has "bob__" renames to "dave", and the client adopts "dave" as its own and desired nick |
| session_safety | `Session.cfg` | pass | `TypeOK`. `OneConnectionAtATime`: however `Loop`, the workers of two connections, a failed dial, `Disconnect`, `Quit` and `SendRaw` interleave, no worker of a replaced connection is still running. Server PINGs and 433s whose callbacks send on `pwrite` are part of every interleaving |
| session_full_queue | `SessionFullQueue.cfg` | violation | `FailureReconnects`: after a transient failure the writer takes the closed `irc.end` with lines still queued, the application's `SendRaw` fills `pwrite`, and the pinger, which ticked before the close, blocks in `SendRawf(PING)` (in other traces in `SendRawf(NICK)` holding `irc.Lock`, which also stops `Quit()`). `Wait()` never returns and `Loop` never reconnects |
| session_double_close | `SessionDoubleClose.cfg` | violation | `NoPanic`: `Loop` closes `irc.end` after a failure and a `Disconnect()` during its `Wait()` closes it again |
| session_disconnect_deadlock | `SessionDisconnectDeadlock.cfg` | violation | `DisconnectReturns`: `Disconnect()` holds `irc.Lock` across `Wait()` while a worker waits for the lock: the pinger's ticker2 branch, or a reader callback |
| session_quit | `SessionQuit.cfg` | violation | `QuitStops`: `Quit()` queues QUIT before it sets `quit`; `Loop` reconnects in between, the QUIT is lost with the old connection and the new one stays up |
| dispatch | `Dispatch.cfg` | pass | `TypeOK`. `LineDispatchedAsSent`: each of five lines in the message format (tag values with a space, a ";" and an empty value, a source, middle params, a trailing that itself contains `" :"`, CTCP framing) is parsed back into its code, arguments, source and tags, and reaches the callbacks of the code spec 4.7 gives it; an ERROR line stops the reader instead. It is not stated for tag values with a backslash or for lines under five characters: `parseToEvent` gets both wrong (below). `EveryCallbackRuns`: every callback registered for a line's code or for "*" when the reader copies the registry is started, whatever registry calls interleave. `DispatchReturns`: with `CallbackTimeout` set, the reader leaves `RunCallbacks` even when a callback blocks. `GoroutinesExit`: an abandoned goroutine whose callback returns late does not block on `done`. `RefinesRegistry`: every step of Dispatch is a step of `CallbackRegistry` (or leaves its variables unchanged), and its fairness holds: the reader never leaves the join loop while a callback of the current line still runs, unless the timeout expired; ids are never reused; a dropped CTCP line starts nothing |
| dcc_panic | `DCCPanic.cfg` | violation | `NoPanic`: after `InitiateDCCChat` and the peer's connection, `CloseDCCChat` closes `Outgoing`; the writer's range loop ends and `writeDCCChat` closes `Outgoing` again, which panics and ends the process |
| handshake | `Handshake.cfg` | pass | `TypeOK` (its mutant runs the LS branch's send loop once too often). `AuthBeforeRegistration`: with `UseSASL`, Connect never reaches NICK/USER without accepted credentials. `CapChanNeverBlocks`: the CAP callback never sends on a full `cap_chan`. `NegotiationReturns`: Connect returns against every server |
| handshake_registration | `HandshakeRegistration.cfg` | violation | `RegistrationCompletes`: Connect sends CAP LS 302 after the negotiation ended and nothing sends CAP END, so a CAP server keeps registration suspended |

nick_hijack contradicts `spec.md` §4.5 and `NICK_TRACKING_AUDIT.md`, which reports the bug as fixed. See `findings` in `PROJECT.json`.

Defects met while modelling that have no run of their own, because one reading of the code shows each (they are listed as hazards):
- every successful reconnect resets `recoverableReconnects` (newest revision), so the ceiling is never reached;
- on a permanent ERROR `Loop` returns without closing `irc.end`;
- `sentRegistration` is never reset (newest revision), so a reconnected session sends no NICK/USER;
- `Loop` does not tell `ErrDisconnected` from a failure, so it reconnects after a voluntary `Disconnect()`.
- the NICK confirmation sets `nick` to the confirmed nick (newest revision), discarding a `Nick()` call coalesced in the window; the test `TestSimpleMultipleChanges` reaches it;
- `parseToEvent` rejects lines shorter than five characters, which spec 4.2 forbids;
- a line of IRCv3 tags with nothing after them (`@k=v `) passes that length check; `parseToEvent` strips the tags and reads `msg[0]` of the empty rest, and the reader goroutine panics, which ends the process. `Parsed["@k=v \r\n"].result` evaluates to "panic", and `Dispatch` keeps the crash (`rd = "crashed"`);
- `negotiateCaps` sets `RequestCaps` to nil on every `Connect()`, so the custom capabilities `docs/ARCHITECTURE.md` (lines 74, 148) and the README example tell users to append before connecting are never requested. `Handshake` keeps only the "sasl" entry `negotiateCaps` adds itself;
- `unescapeTagValue` replaces in sequence, so an escaped backslash followed by `s` (`\\s`) decodes to a backslash and a space, not to `\s` (spec 8, tag round trip); `UnescapeTagValue(Escape("a\\s"))` evaluates to it;
- in the main revision, a PRIVMSG callback of the previous connection that `RunCallbacks` stopped waiting for can set `fullyConnected` after the reconnect and before 001; the rejection handlers then skip their retry and a client whose nick is taken never registers. `StaleCallback` models it; the newest revision removed the handler, and its comment (`part_003`:585-587) gives this cause;
- in DCC, a second chat with the same nick overwrites the entry of a live first chat, which can then never be closed; the deferred delete of an ending chat removes a newer chat stored under the same nick; and when the peer hangs up first, the writer stays blocked in its range over `Outgoing` forever. `DCC` reaches all three, but the run slot goes to the panic;
- `setupCallbacks` registers a `CTCP_DCC` callback that `RunCallbacks` never produces (DCC is dispatched as the generic `CTCP`), so an incoming DCC CHAT offer is never handled.

### Bounds

- `pwrite` has capacity `QueueCap = 2`. That is enough to fill it with NICK+USER at start, or with a PING plus a NICK.
- There is one `Nick()` call, and one step of the other users or the server's unsolicited traffic (none in the retry run, whose question does not involve them).
- The nicks are:
  - "bob" (initial, taken), so registration needs a retry;
  - "alice" (taken, so the post-registration path goes through 433);
  - "carol" (erroneous, so 432 fires);
  - "" (so 431 fires);
  - "dave", a nick other users may move to.
- Every rejection of a still-taken desired nick makes `nickcurrent` longer (`modifyNick` and the "Err" prefix both work on `nickcurrent`). That growth has no bound, so `NickLenBound` stops exploration at nicks longer than `MaxNickLen = 7`. Registration needs fewer characters than that.
- Behaviours cut off by the constraint are cut with the reader's next step still enabled. Under the reader's weak fairness they count as unfair, so liveness is checked only on the bounded part.
- One timing assumption is modelled: a tick of ticker2 (every 15 min) finds the previous PING answered (`PingInFlight`).

Session bounds (`MCSession`, the cfgs):
- `MaxConnects = 2`: one reconnect is enough for every question about a replaced connection.
- At most one failed dial, one `Disconnect()`, one `SendRaw()` and one `Quit()`.
- `MaxRecoverableReconnects = 1`, so the ceiling is reached after one attempt.
- `PwriteCap` is small (the code's is 10) so that a full queue is reached in few steps. `session_full_queue` uses 3: the registration and one more line fill it. `session_safety` uses 3 with two sending server lines (`MaxLines = 2`). `session_quit` uses 7, more than the lines its scenario can queue (NICK/USER, QUIT, and at most NICK, PING, NICK from the pinger), so its counterexample is the `Quit()` race and not the full queue; the other runs use 4.
- ERROR texts: one that matches both Permanent and Recoverable patterns (to check the precedence), a Server one, a Network one and an unmatched one.
- The runs say `CHECK_DEADLOCK FALSE`: `Loop` returns, and the application may stop calling the library.

Dispatch bounds: three ids, two dispatched lines, two registry calls. That covers a removal or replacement racing the copy, and an abandoned goroutine of the first line still running during the second. The reader reads at most `MaxEvents` raw lines, chosen from the wire form of five messages (a PRIVMSG whose trailing contains `" :"`, a CTCP VERSION, whose code the built-in callback shares with the application's, a DCC CHAT offer, a NICK from a server source with two tags whose values need escaping, and an ERROR) plus an unterminated CTCP; no tag value holds a backslash and no line is under five characters.

DCC bounds: one target nick, two chats (so a second chat can meet a first one under the same nick), one line per peer, three application calls, channels of capacity 1 (the code's 100 only delays `channel full` and the reader's blocking). The panic needs one chat and one call. No fairness is assumed: the run checks a safety property, with `CHECK_DEADLOCK FALSE` because the application may stop calling.

Handshake bounds: one `Connect()` against each server kind, with `UseSASL` on and off. The run stops when Connect has returned (`CHECK_DEADLOCK FALSE`).

### Fairness

- In `NickTracking`, weak fairness on:
  - the reader, which runs as long as the socket is up;
  - the writer and the server (`Server`);
  - the ticker (`PingTick`, `MainPingTick`), which fires forever;
  - the two sends that follow an `Unlock`;
  - the passing of 30 s (`WindowExpires`);
  - a late callback goroutine (`StaleCallback`), which Go eventually schedules.
- The application's `Nick()` calls, the other users and the server's unsolicited lines owe nothing.
- In `Session`:
  - Weak fairness on every worker step except what the server sends (`ReaderLine`, `ReaderERROR`), on every step of `Loop` except a failed dial, and on finishing a `Disconnect()` or `Quit()` that has started. A blocked goroutine is not enabled, so this assumes only that Go schedules runnable goroutines.
  - `ReaderFail` is weakly fair: a read always ends, at the latest at its deadline (`Timeout + PingFreq`).
  - Strong fairness on `PingerEnd`: Go's `select` picks among ready cases at random, so a pinger whose tickers keep firing still takes the closed `irc.end` eventually.
  - Timing assumption: a tick finds no earlier PING still queued, because the tickers fire a minute or more apart, and a running writer or a `Loop` closing `irc.end` after a failure takes far less. The exception is a pinger nobody will stop (`Abandoned`: its writer has exited and `Loop` has returned or halted). Its PINGs pile up in `pwrite` one a minute until it is full.
  - Weak fairness on the sends of the PING, PONG and NICK lines: a send blocked on a full `pwrite` goes through once the writer has drained it for good, and every other sender is bounded.
  - Failed dials and application calls owe nothing.
- `CallbackRegistry` assumes weak fairness of a quick callback returning, of the timer and of the fan-out returning. `RefinesRegistry` checks that Dispatch's own fairness implies it.
- In `Dispatch`, weak fairness on every callback goroutine's steps, on the expiry of the context (`Expire`) and on the join loop's timeout (`JoinTimeout`). The application's registry calls and the next line (`RunCallbacks`) owe nothing.
- In `Handshake`, weak fairness on Connect's steps, the reader, every copied callback and the server. The timeouts are steps of Connect, so a server that never answers still lets Connect return.

## Plan for the remaining components

1. **Session**: an abstract lifecycle spec refined through `INSTANCE ... WITH`. Also `Connect` failing in `negotiateCaps` after its workers started, which needs `Handshake` composed with `Reconnect`.
2. **Handshake**: several attempts in a row, and the newest revision's 800 ms registration fallback.
3. **DCC**: liveness (every chat's goroutines end) and the map tracking every live chat, once a run slot is free.

## Not modelled

- Proxy dialing and TLS: pure I/O.
- Text formatting, logging and the lag computation of PONG.
- DCC's incoming side (`handleIncomingDCCChat`): unreachable, because `RunCallbacks` never produces the `CTCP_DCC` code its callback is registered for.
- The examples and documentation.
