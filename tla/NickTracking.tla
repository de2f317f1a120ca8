---------------------------- MODULE NickTracking ----------------------------
(***************************************************************************)
(* The identity (nickname) state machine of go-ircevo over one live        *)
(* connection, together with the IRC server it talks to and the other     *)
(* users of that server.                                                   *)
(*                                                                         *)
(* Client side (src/unnamed/part_001 = irc.go, src/unnamed/part_003 =      *)
(* irc_callback.go): the fields nick (desired), nickcurrent (believed      *)
(* confirmed), nickPending, nickChangeInProgress, nickError and            *)
(* fullyConnected of Connection, changed by the public Nick() call, by the *)
(* ping-frequency ticker of pingLoop, and by the callbacks the reader      *)
(* goroutine runs for 001, 431, 432, 433, 436, 437, 484, NICK and PONG.    *)
(* Every callback runs under the session lock, so a callback is one step.  *)
(* Nick() and the ticker release the lock before they enqueue their NICK   *)
(* command; that enqueue is a step of its own (NickSend, PingSend).        *)
(*                                                                         *)
(* The main revision (src/irc.go with the callbacks of src/irc_struct.go, *)
(* lines 576-932) is modelled by the Main* actions: Nick() without        *)
(* coalescing, a ticker that resends the desired nick under the lock,     *)
(* rejection handlers gated by !fullyConnected, and PING, JOIN, PART,     *)
(* MODE and PRIVMSG handlers that set fullyConnected.  The variable rev   *)
(* selects the revision for a behaviour.  The oldest revision            *)
(* (src/irc_struct.go 1173-1313, with the same Nick() and pingLoop) has   *)
(* only the 001, NICK, PING, PONG and rejection handlers (the Old*        *)
(* actions).                                                              *)
(*                                                                         *)
(* Environment: the writer goroutine plus the server read the outbound     *)
(* queue pwrite in order; the server answers on a FIFO stream that the     *)
(* reader consumes.  Other users take, release and rename nicknames.      *)
(***************************************************************************)
EXTENDS Integers, Sequences, SequencesExt, FiniteSets

CONSTANTS
    InitialNick,    \* the nick given to IRC(nick, user)
    Requests,       \* nicks the application may pass to Nick()
    Others,         \* nicks held by other users when we connect
    OtherNicks,     \* nicks other users may move to while we are online
    Erroneous,      \* nicks the server rejects with 432
    QueueCap,       \* capacity of pwrite (10 in the code)
    MaxNickCalls,   \* bound on Nick() calls
    MaxEnvSteps,    \* bound on steps of the other users and of the server's +r
    Revisions,      \* revisions of the code checked: "newest", "main", "oldest"
    StaleCallbacks, \* whether a PRIVMSG callback of the previous connection may still run
    ServerTraffic   \* unsolicited lines the server may send: "PING", "PRIVMSG", "JOIN"

ASSUME /\ InitialNick \in STRING \ {""}
       /\ Requests \subseteq STRING
       /\ Others \cup OtherNicks \cup Erroneous \subseteq STRING \ {""}
       /\ QueueCap \in Nat \ {0}
       /\ MaxNickCalls \in Nat /\ MaxEnvSteps \in Nat
       /\ Revisions \subseteq {"newest", "main", "oldest"} /\ StaleCallbacks \subseteq BOOLEAN
       /\ ServerTraffic \subseteq {"PING", "PRIVMSG", "JOIN"}

NoSend == "<none>"          \* no NICK command computed but not yet enqueued
Senders == {"user", "ping"} \* Nick() caller and the pingLoop goroutine

VARIABLES
    nick, nickcurrent, nickPending, nickChangeInProgress,
    nickChangeWindow,  \* time.Since(nickChangeTimeout) < 30*time.Second
    nickError, fullyConnected,
    registrationSteps, \* counts 001..005 replies; 0 before the welcome
    stale,             \* a PRIVMSG callback goroutine of the previous connection
    rev,               \* the revision of the code (fixed for a behaviour)
    unsent,            \* per sender: NICK argument computed under the lock, not yet enqueued
    out,               \* pwrite followed by the socket: client -> server
    in,                \* socket: server -> client, read by readLoop
    srvNick, gotUser, registered, restricted, taken,   \* the server
    nickCalls, envSteps                                 \* bounds

clientVars == <<nick, nickcurrent, nickPending, nickChangeInProgress,
                nickChangeWindow, nickError, fullyConnected, unsent,
                registrationSteps, stale, rev>>
serverVars == <<srvNick, gotUser, registered, restricted, taken>>
vars == <<clientVars, out, in, serverVars, nickCalls, envSteps>>

\* Commands the client writes and events the parser hands to callbacks.
Cmd(c, a) == [cmd |-> c, arg |-> a]
\* own: the event is about our connection (a ghost field, not on the wire).
Ev(code, src, args, own) == [code |-> code, src |-> src, args |-> args, own |-> own]

\* Event.Message(): the last argument, or "" when there is none.
Message(e) == IF e.args = <<>> THEN "" ELSE Last(e.args)

\* Mutant: the capacity test off by one.
CanSendOffByOne == Len(out) <= QueueCap
CanSend == Len(out) < QueueCap
Enqueue(c) == CanSend /\ out' = Append(out, c)

\* modifyNick: an underscore after a short nick, before a long one.
ModifyNick(s) == IF Len(s) > 8 THEN "_" \o s ELSE s \o "_"

-----------------------------------------------------------------------------
(* State right after Connect() returned on a server without CAP: Connect  *)
(* cleared nickPending/nickChangeInProgress, negotiateCaps took the        *)
(* no-capability branch, set sentRegistration and nickPending and queued   *)
(* NICK and USER.                                                          *)
Init ==
    /\ nick = InitialNick /\ nickcurrent = InitialNick
    /\ nickPending = InitialNick
    /\ nickChangeInProgress = FALSE /\ nickChangeWindow = FALSE
    /\ nickError = "" /\ fullyConnected = FALSE /\ registrationSteps = 0
    /\ stale \in StaleCallbacks /\ rev \in Revisions
    /\ unsent = [s \in Senders |-> NoSend]
    /\ out = <<Cmd("NICK", InitialNick), Cmd("USER", "")>>
    /\ in = <<>>
    /\ srvNick = "" /\ gotUser = FALSE /\ registered = FALSE
    /\ restricted = FALSE /\ taken = Others
    /\ nickCalls = 0 /\ envSteps = 0

-----------------------------------------------------------------------------
(* Nick(n): coalesce while a change is in progress inside its 30 s window; *)
(* otherwise set the desired nick and, if it differs from nickcurrent,     *)
(* mark a change in progress and send NICK after releasing the lock.       *)
Nick(n) ==
    /\ rev = "newest"
    /\ nickCalls < MaxNickCalls
    /\ unsent["user"] = NoSend
    /\ nickCalls' = nickCalls + 1
    /\ nick' = n
    /\ IF nickChangeInProgress /\ nickChangeWindow
         THEN /\ nickPending' = n
              /\ UNCHANGED <<nickChangeInProgress, nickChangeWindow, unsent>>
         ELSE IF nickcurrent # n
           THEN /\ nickChangeInProgress' = TRUE /\ nickChangeWindow' = TRUE
                /\ nickPending' = n
                /\ unsent' = [unsent EXCEPT !["user"] = n]
           ELSE /\ nickPending' = "" /\ nickChangeInProgress' = FALSE
                /\ UNCHANGED <<nickChangeWindow, unsent>>
    /\ UNCHANGED <<nickcurrent, nickError, fullyConnected, registrationSteps, stale, rev, out, in, serverVars, envSteps>>

\* The SendRawf("NICK %s") that Nick() and pingLoop make after Unlock().
SendUnsent(s) ==
    /\ unsent[s] # NoSend
    /\ Enqueue(Cmd("NICK", unsent[s]))
    /\ unsent' = [unsent EXCEPT ![s] = NoSend]
    /\ UNCHANGED <<nick, nickcurrent, nickPending, nickChangeInProgress,
                   nickChangeWindow, nickError, fullyConnected, registrationSteps, stale, rev, in, serverVars,
                   nickCalls, envSteps>>
NickSend == SendUnsent("user")
PingSend == SendUnsent("ping")

\* A PING or its PONG is still travelling.
PingInFlight ==
    \/ \E i \in 1..Len(out) : out[i].cmd = "PING"
    \/ \E i \in 1..Len(in) : in[i].code = "PONG"

\* Mutant: the ticker retries the desired nick only when no change is in progress.
PingTickWhenIdle ==
    /\ rev = "newest"
    /\ unsent["ping"] = NoSend
    /\ ~PingInFlight
    /\ Enqueue(Cmd("PING", ""))
    /\ IF nick # nickcurrent /\ ~nickChangeInProgress
         THEN /\ nickPending' = nick
              /\ nickChangeInProgress' = TRUE /\ nickChangeWindow' = TRUE
              /\ unsent' = [unsent EXCEPT !["ping"] = nick]
         ELSE UNCHANGED <<nickPending, nickChangeInProgress, nickChangeWindow, unsent>>
    /\ UNCHANGED <<nick, nickcurrent, nickError, fullyConnected, registrationSteps, stale, rev, in, serverVars,
                   nickCalls, envSteps>>

(* pingLoop, ticker2 branch: PING, then under the lock, when the desired   *)
(* nick differs from nickcurrent, record it as pending and (after Unlock)  *)
(* send NICK for it.  The ticker period (PingFreq, 15 min) is far longer  *)
(* than a round trip, so a tick finds the previous PING answered.         *)
PingTick ==
    /\ rev = "newest"
    /\ unsent["ping"] = NoSend
    /\ ~PingInFlight
    /\ Enqueue(Cmd("PING", ""))
    /\ IF nick # nickcurrent
         THEN /\ nickPending' = nick
              /\ nickChangeInProgress' = TRUE /\ nickChangeWindow' = TRUE
              /\ unsent' = [unsent EXCEPT !["ping"] = nick]
         ELSE UNCHANGED <<nickPending, nickChangeInProgress, nickChangeWindow, unsent>>
    /\ UNCHANGED <<nick, nickcurrent, nickError, fullyConnected, registrationSteps, stale, rev, in, serverVars,
                   nickCalls, envSteps>>

\* Nick(n), main revision: set the desired nick, then send NICK after Unlock().
MainNick(n) ==
    /\ rev \in {"main", "oldest"}
    /\ nickCalls < MaxNickCalls
    /\ unsent["user"] = NoSend
    /\ nickCalls' = nickCalls + 1
    /\ nick' = n
    /\ unsent' = [unsent EXCEPT !["user"] = n]
    /\ UNCHANGED <<nickcurrent, nickPending, nickChangeInProgress, nickChangeWindow,
                   nickError, fullyConnected, registrationSteps, stale, rev, out, in,
                   serverVars, envSteps>>

(* pingLoop, ticker2 branch, main revision: PING, then under the lock NICK *)
(* for the desired nick when it differs from nickcurrent.  Nothing this   *)
(* model observes happens between the PING and the locked section.       *)
MainPingTick ==
    /\ rev \in {"main", "oldest"}
    /\ ~PingInFlight
    /\ IF nick # nickcurrent
         THEN /\ Len(out) + 2 <= QueueCap
              /\ out' = out \o <<Cmd("PING", ""), Cmd("NICK", nick)>>
         ELSE Enqueue(Cmd("PING", ""))
    /\ UNCHANGED <<clientVars, in, serverVars, nickCalls, envSteps>>

\* Thirty seconds pass after the last nickChangeTimeout = time.Now().
WindowExpires ==
    /\ nickChangeWindow
    /\ nickChangeWindow' = FALSE
    /\ UNCHANGED <<nick, nickcurrent, nickPending, nickChangeInProgress, nickError,
                   fullyConnected, registrationSteps, stale, rev, unsent, out, in, serverVars, nickCalls, envSteps>>

-----------------------------------------------------------------------------
(* Callbacks.  Each leaves `in` and the server alone (ReadLoop consumes   *)
(* the event) and blocks, like SendRawf on a full pwrite, when it must    *)
(* send and pwrite is full.                                                *)

\* Mutant: the 433 handler records the error but sends no alternative.
NickInUseNoRetry(code, e) ==
    /\ nickError' = code
    /\ UNCHANGED <<nickcurrent, out, nick, nickPending, nickChangeInProgress,
                   nickChangeWindow, fullyConnected, registrationSteps, stale, rev, unsent>>

\* 433 (and 436, 437): retry with modifyNick(nickcurrent) when the rejected
\* nick is the desired one.
NickInUse(code, e) ==
    /\ nickError' = code
    /\ IF Len(e.args) > 1 /\ e.args[2] = nick
         THEN LET cur == IF nickcurrent = "" THEN nick ELSE nickcurrent
              IN /\ nickcurrent' = ModifyNick(cur)
                 /\ Enqueue(Cmd("NICK", ModifyNick(cur)))
         ELSE UNCHANGED <<nickcurrent, out>>
    /\ UNCHANGED <<nick, nickPending, nickChangeInProgress, nickChangeWindow,
                   fullyConnected, registrationSteps, stale, rev, unsent>>
On433(e) == NickInUse("433", e)
On436(e) == NickInUse("436", e)
On437(e) == NickInUse("437", e)

\* 431: seed nickcurrent if empty, resend the desired nick if there is one.
On431(e) ==
    /\ nickError' = "431"
    /\ nickcurrent' = IF nickcurrent = "" THEN nick ELSE nickcurrent
    /\ IF nick # "" THEN Enqueue(Cmd("NICK", nick)) ELSE UNCHANGED out
    /\ UNCHANGED <<nick, nickPending, nickChangeInProgress, nickChangeWindow,
                   fullyConnected, registrationSteps, stale, rev, unsent>>

\* 432: retry with "Err" prefixed to nickcurrent.
On432(e) ==
    /\ nickError' = "432"
    /\ IF Len(e.args) > 1 /\ e.args[2] \in {nick, nickcurrent}
         THEN LET cur == IF nickcurrent = "" THEN nick ELSE nickcurrent
              IN /\ nickcurrent' = "Err" \o cur
                 /\ Enqueue(Cmd("NICK", "Err" \o cur))
         ELSE UNCHANGED <<nickcurrent, out>>
    /\ UNCHANGED <<nick, nickPending, nickChangeInProgress, nickChangeWindow,
                   fullyConnected, registrationSteps, stale, rev, unsent>>

\* 484: record the error only.
On484(e) ==
    /\ nickError' = "484"
    /\ UNCHANGED <<nick, nickcurrent, nickPending, nickChangeInProgress,
                   nickChangeWindow, fullyConnected, registrationSteps, stale, rev, unsent, out>>

\* NICK: a change whose source is nickcurrent is taken as ours; both the
\* believed nick and the desired nick become the new one.
OnNick(e) ==
    /\ IF e.src = nickcurrent /\ Message(e) # ""
         THEN /\ nickcurrent' = Message(e) /\ nick' = Message(e)
              /\ nickChangeInProgress' = FALSE /\ nickError' = ""
         ELSE UNCHANGED <<nickcurrent, nick, nickChangeInProgress, nickError>>
    /\ UNCHANGED <<nickPending, nickChangeWindow, fullyConnected, registrationSteps, stale, rev, unsent, out>>

\* 001: the welcome names our nick; registration is complete and the
\* counting of registration replies starts.
On001(e) ==
    /\ nickcurrent' = e.args[1] /\ nick' = e.args[1]
    /\ fullyConnected' = TRUE /\ nickError' = "" /\ registrationSteps' = 1
    /\ UNCHANGED <<nickPending, nickChangeInProgress, nickChangeWindow, unsent, out>>

\* PONG: the lag is only logged.
OnPong(e) == UNCHANGED <<clientVars, out>>

\* The client fields a handler below may leave alone.
identity == <<nick, nickcurrent, nickPending, nickChangeInProgress,
              nickChangeWindow, nickError, unsent>>

(* 002, 003, 004: count the reply while registration is under way; the   *)
(* else branch sets fullyConnected, which is already TRUE there.          *)
RegistrationStep(e) ==
    /\ registrationSteps' = IF ~fullyConnected /\ registrationSteps > 0
                              THEN registrationSteps + 1 ELSE registrationSteps
    /\ UNCHANGED <<identity, fullyConnected, out>>

\* 005: as 002, and four counted replies complete the registration.
On005(e) ==
    /\ IF ~fullyConnected /\ registrationSteps > 0
         THEN /\ registrationSteps' = registrationSteps + 1
              /\ fullyConnected' = (registrationSteps + 1 >= 4)
         ELSE UNCHANGED <<registrationSteps, fullyConnected>>
    /\ UNCHANGED <<identity, out>>

\* 376 (end of MOTD) and 422 (no MOTD) complete a registration under way.
OnMotdEnd(e) ==
    /\ fullyConnected' = (fullyConnected \/ registrationSteps > 0)
    /\ UNCHANGED <<identity, registrationSteps, out>>

\* Mutant: the main revision's PING handler without its registrationSteps test.
OnPingAnyTime(e) ==
    /\ Enqueue(Cmd("PONG", Message(e)))
    /\ fullyConnected' = IF rev = "main" THEN TRUE ELSE fullyConnected
    /\ UNCHANGED <<identity, registrationSteps>>

\* PING from the server: answer PONG; the main revision also takes a PING
\* after the welcome as proof of a complete registration.
OnPing(e) ==
    /\ Enqueue(Cmd("PONG", Message(e)))
    /\ fullyConnected' = IF rev = "main" THEN fullyConnected \/ registrationSteps > 0
                                         ELSE fullyConnected
    /\ UNCHANGED <<identity, registrationSteps>>

-----------------------------------------------------------------------------
(* Handlers of the main revision (src/irc_struct.go 576-932).  The        *)
(* rejection handlers work on nickcurrent alone and only before           *)
(* fullyConnected; they do not look at the rejected nick.                 *)

\* 433 (and 437, 431, 436): modifyNick(nickcurrent) and resend it.
MainNickInUse(code, e) ==
    /\ nickError' = code
    /\ IF ~fullyConnected
         THEN LET cur == IF nickcurrent = "" THEN nick ELSE nickcurrent
              IN /\ nickcurrent' = ModifyNick(cur)
                 /\ Enqueue(Cmd("NICK", ModifyNick(cur)))
         ELSE UNCHANGED <<nickcurrent, out>>
    /\ UNCHANGED <<nick, nickPending, nickChangeInProgress, nickChangeWindow,
                   unsent, fullyConnected, registrationSteps>>
MainOn433(e) == MainNickInUse("433", e)
MainOn437(e) == MainNickInUse("437", e)
MainOn431(e) == MainNickInUse("431", e)
MainOn436(e) == MainNickInUse("436", e)

\* 432: "Err" prefixed to nickcurrent, before fullyConnected only.
MainOn432(e) ==
    /\ nickError' = "432"
    /\ IF ~fullyConnected
         THEN LET cur == IF nickcurrent = "" THEN nick ELSE nickcurrent
              IN /\ nickcurrent' = "Err" \o cur
                 /\ Enqueue(Cmd("NICK", "Err" \o cur))
         ELSE UNCHANGED <<nickcurrent, out>>
    /\ UNCHANGED <<nick, nickPending, nickChangeInProgress, nickChangeWindow,
                   unsent, fullyConnected, registrationSteps>>

\* NICK: a change from nickcurrent is ours; the desired nick follows only
\* when it had not diverged from the old nick.
MainOnNick(e) ==
    /\ IF e.src = nickcurrent /\ Message(e) # ""
         THEN /\ nickcurrent' = Message(e) /\ nickError' = ""
              /\ nick' = IF nick = e.src THEN Message(e) ELSE nick
         ELSE UNCHANGED <<nickcurrent, nick, nickError>>
    /\ UNCHANGED <<nickPending, nickChangeInProgress, nickChangeWindow, unsent,
                   fullyConnected, registrationSteps, out>>

\* A target starting with '#' or '&'.
Channels == {"#chan", "&chan"}

\* JOIN and PART by nickcurrent, a MODE on nickcurrent or on a channel, and
\* any PRIVMSG are taken as proof that the connection is registered.
MainSetsConnected(cond) ==
    /\ fullyConnected' = (fullyConnected \/ cond)
    /\ UNCHANGED <<identity, registrationSteps, out>>
MainOnJoinPart(e) == MainSetsConnected(e.src = nickcurrent)
MainOnMode(e) ==
    MainSetsConnected(Len(e.args) > 0 /\ e.args[1] \in {nickcurrent} \cup Channels)
MainOnPrivmsg(e) == MainSetsConnected(TRUE)

\* The callbacks both revisions register for an event code.
SharedCallback(e) ==
    CASE e.code = "001"  -> On001(e)
      [] e.code \in {"002", "003", "004"} -> RegistrationStep(e)
      [] e.code = "005"  -> On005(e)
      [] e.code \in {"376", "422"} -> OnMotdEnd(e)
      [] e.code = "484"  -> On484(e)
      [] e.code = "PONG" -> OnPong(e)
      [] e.code = "PING" -> OnPing(e)

\* The newest revision; its JOIN, PART and PRIVMSG handlers only call
\* ValidateOwnNick, which no file of the source defines, and MODE does nothing.
NewestCallback(e) ==
    CASE e.code = "431"  -> On431(e)
      [] e.code = "432"  -> On432(e)
      [] e.code = "433"  -> On433(e)
      [] e.code = "436"  -> On436(e)
      [] e.code = "437"  -> On437(e)
      [] e.code = "NICK" -> OnNick(e)
      [] e.code \in {"JOIN", "PART", "MODE", "PRIVMSG"} -> UNCHANGED <<clientVars, out>>

MainCallback(e) ==
    CASE e.code = "431"  -> MainOn431(e)
      [] e.code = "432"  -> MainOn432(e)
      [] e.code = "433"  -> MainOn433(e)
      [] e.code = "436"  -> MainOn436(e)
      [] e.code = "437"  -> MainOn437(e)
      [] e.code = "NICK" -> MainOnNick(e)
      [] e.code \in {"JOIN", "PART"} -> MainOnJoinPart(e)
      [] e.code = "MODE" -> MainOnMode(e)
      [] e.code = "PRIVMSG" -> MainOnPrivmsg(e)

SharedCodes == {"001", "002", "003", "004", "005", "376", "422", "484", "PONG", "PING"}

-----------------------------------------------------------------------------
(* Handlers of the oldest revision (src/irc_struct.go 1173-1313).  They    *)
(* record no nickError and keep no registrationSteps; 001 alone sets       *)
(* fullyConnected.                                                         *)

\* 433, 437, 431, 436: before fullyConnected, modifyNick(nickcurrent) and resend.
OldNickInUse(e) ==
    /\ IF ~fullyConnected
         THEN LET cur == IF nickcurrent = "" THEN nick ELSE nickcurrent
              IN /\ nickcurrent' = ModifyNick(cur)
                 /\ Enqueue(Cmd("NICK", ModifyNick(cur)))
         ELSE UNCHANGED <<nickcurrent, out>>
    /\ UNCHANGED <<nick, nickPending, nickChangeInProgress, nickChangeWindow,
                   nickError, unsent, fullyConnected, registrationSteps>>
OldOn433(e) == OldNickInUse(e)
OldOn437(e) == OldNickInUse(e)
OldOn431(e) == OldNickInUse(e)
OldOn436(e) == OldNickInUse(e)

\* 432: before fullyConnected, "Err" prefixed to nickcurrent and resent.
OldOn432(e) ==
    /\ IF ~fullyConnected
         THEN LET cur == IF nickcurrent = "" THEN nick ELSE nickcurrent
              IN /\ nickcurrent' = "Err" \o cur
                 /\ Enqueue(Cmd("NICK", "Err" \o cur))
         ELSE UNCHANGED <<nickcurrent, out>>
    /\ UNCHANGED <<nick, nickPending, nickChangeInProgress, nickChangeWindow,
                   nickError, unsent, fullyConnected, registrationSteps>>

\* NICK from nickcurrent: both nickcurrent and the desired nick become the
\* new one, whatever the desired nick was.
OldOnNick(e) ==
    /\ IF e.src = nickcurrent
         THEN nickcurrent' = Message(e) /\ nick' = Message(e)
         ELSE UNCHANGED <<nickcurrent, nick>>
    /\ UNCHANGED <<nickPending, nickChangeInProgress, nickChangeWindow, nickError,
                   unsent, fullyConnected, registrationSteps, out>>

\* 001: the welcome's nick becomes nickcurrent; the desired nick is kept.
OldOn001(e) ==
    /\ nickcurrent' = e.args[1] /\ fullyConnected' = TRUE
    /\ UNCHANGED <<nick, nickPending, nickChangeInProgress, nickChangeWindow,
                   nickError, unsent, registrationSteps, out>>

\* PING: answer PONG, nothing else.
OldOnPing(e) ==
    /\ Enqueue(Cmd("PONG", Message(e)))
    /\ UNCHANGED clientVars

OldCallback(e) ==
    CASE e.code = "433"  -> OldOn433(e)
      [] e.code = "437"  -> OldOn437(e)
      [] e.code = "431"  -> OldOn431(e)
      [] e.code = "436"  -> OldOn436(e)
      [] e.code = "432"  -> OldOn432(e)
      [] e.code = "NICK" -> OldOnNick(e)
      [] e.code = "001"  -> OldOn001(e)
      [] e.code = "PING" -> OldOnPing(e)
      [] OTHER -> UNCHANGED <<clientVars, out>>   \* 484, PONG, CTCP: nothing modelled

Callback(e) ==
    IF rev = "oldest" THEN OldCallback(e)
    ELSE IF e.code \in SharedCodes THEN SharedCallback(e)
    ELSE IF rev = "newest" THEN NewestCallback(e) ELSE MainCallback(e)

\* readLoop: read one line, parse it, run its callbacks to completion.
ReadLoop ==
    /\ in # <<>>
    /\ in' = Tail(in)
    /\ Callback(Head(in))
    /\ UNCHANGED <<stale, rev, serverVars, nickCalls, envSteps>>

(* A PRIVMSG callback goroutine of the previous connection runs now: the   *)
(* reader's RunCallbacks stops waiting for its callbacks at CallbackTimeout *)
(* (src/irc_struct.go 558-565) and nothing waits for them afterwards.     *)
StaleCallback ==
    /\ stale
    /\ stale' = FALSE
    /\ IF rev = "main" THEN MainOnPrivmsg(Ev("PRIVMSG", "peer", <<"x">>, FALSE))
                      ELSE UNCHANGED <<identity, fullyConnected, registrationSteps, out>>
    /\ UNCHANGED <<rev, in, serverVars, nickCalls, envSteps>>

-----------------------------------------------------------------------------
(* The server (RFC 2812 behaviour, not code of this repository).  It     *)
(* handles the head of the stream written by the writer goroutine and    *)
(* queues its answers (its send queue is not the bottleneck here: every  *)
(* command is answered by at most one event).                            *)

Reply(e) == in' = Append(in, e)

(* The welcome burst: 001, 002 to 005, then the end of the MOTD or its   *)
(* absence.  002 stands for 002, 003 and 004, which run the same handler. *)
Welcome(n) ==
    \E motd \in {"376", "422"} :
        in' = in \o [i \in 1..4 |->
                     Ev(<<"001", "002", "005", motd>>[i], "server", <<n>>, TRUE)]

\* Target argument of a numeric: our nick once registered, "*" before.
Target == IF registered THEN srvNick ELSE "*"

ServerNick(n) ==
    \/ /\ n = ""
       /\ Reply(Ev("431", "server", <<Target>>, TRUE))
       /\ UNCHANGED <<srvNick, registered, taken>>
    \/ /\ n \in Erroneous
       /\ Reply(Ev("432", "server", <<Target, n>>, TRUE))
       /\ UNCHANGED <<srvNick, registered, taken>>
    \/ /\ n \notin Erroneous \cup {""} /\ registered /\ restricted
       /\ Reply(Ev("484", "server", <<Target, n>>, TRUE))
       /\ UNCHANGED <<srvNick, registered, taken>>
    \/ /\ n \notin Erroneous \cup {""} /\ ~(registered /\ restricted)
       /\ n = srvNick
       /\ UNCHANGED <<in, srvNick, registered, taken>>
    \/ /\ n \notin Erroneous \cup {""} /\ ~(registered /\ restricted)
       /\ n # srvNick /\ n \in taken
       /\ \E code \in {"433", "436", "437"} :
            Reply(Ev(code, "server", <<Target, n>>, TRUE))
       /\ UNCHANGED <<srvNick, registered, taken>>
    \/ /\ n \notin Erroneous \cup {""} /\ ~(registered /\ restricted)
       /\ n # srvNick /\ n \notin taken
       /\ srvNick' = n
       /\ UNCHANGED taken
       /\ IF registered
            THEN /\ Reply(Ev("NICK", srvNick, <<n>>, TRUE))
                 /\ UNCHANGED registered
            ELSE IF gotUser
              THEN /\ registered' = TRUE
                   /\ Welcome(n)
              ELSE UNCHANGED <<registered, in>>

ServerUser ==
    IF srvNick # "" /\ ~registered
      THEN /\ registered' = TRUE
           /\ Welcome(srvNick)
      ELSE UNCHANGED <<registered, in>>

Server ==
    /\ out # <<>>
    /\ out' = Tail(out)
    /\ LET c == Head(out) IN
         CASE c.cmd = "NICK" -> ServerNick(c.arg) /\ UNCHANGED gotUser
           [] c.cmd = "USER" -> ServerUser /\ gotUser' = TRUE
                                /\ UNCHANGED <<srvNick, taken>>
           [] c.cmd = "PING" -> Reply(Ev("PONG", "server", <<"ts">>, TRUE))
                                /\ UNCHANGED <<srvNick, gotUser, registered, taken>>
           [] c.cmd = "PONG" -> UNCHANGED <<in, srvNick, gotUser, registered, taken>>
    /\ UNCHANGED <<clientVars, restricted, nickCalls, envSteps>>

\* Other users: one renames (seen by us once we share a channel), one quits,
\* one connects, one messages us or joins a channel we are on (PART runs the
\* same handler as JOIN); the
\* server may PING us (also before the welcome) or set user mode +r on us.
EnvStep ==
    /\ envSteps < MaxEnvSteps
    /\ envSteps' = envSteps + 1
    /\ \/ \E x \in taken, y \in OtherNicks \ (taken \cup {srvNick}) :
            /\ taken' = (taken \ {x}) \cup {y}
            /\ IF registered
                 THEN Reply(Ev("NICK", x, <<y>>, FALSE))
                 ELSE UNCHANGED in
            /\ UNCHANGED restricted
       \/ \E x \in taken : taken' = taken \ {x} /\ UNCHANGED <<in, restricted>>
       \/ \E y \in OtherNicks \ (taken \cup {srvNick}) :
            taken' = taken \cup {y} /\ UNCHANGED <<in, restricted>>
       \/ /\ registered /\ ~restricted /\ restricted' = TRUE
          /\ Reply(Ev("MODE", "server", <<srvNick, "+r">>, TRUE))
          /\ UNCHANGED taken
       \/ /\ "PING" \in ServerTraffic
          /\ Reply(Ev("PING", "server", <<"srv">>, TRUE))
          /\ UNCHANGED <<taken, restricted>>
       \/ /\ registered
          /\ \/ "PRIVMSG" \in ServerTraffic
                /\ Reply(Ev("PRIVMSG", "peer", <<srvNick, "hi">>, FALSE))
             \/ "JOIN" \in ServerTraffic
                /\ \E x \in taken : Reply(Ev("JOIN", x, <<"#chan">>, FALSE))
          /\ UNCHANGED <<taken, restricted>>
    /\ UNCHANGED <<clientVars, out, srvNick, gotUser, registered, nickCalls>>

-----------------------------------------------------------------------------
Next ==
    \/ \E n \in Requests : Nick(n)
    \/ NickSend
    \/ PingTick
    \/ \E n \in Requests : MainNick(n)
    \/ MainPingTick
    \/ StaleCallback
    \/ PingSend
    \/ WindowExpires
    \/ ReadLoop
    \/ Server
    \/ EnvStep

(* The reader, the writer and the pinger are goroutines that keep running *)
(* while the connection is up, the ticker keeps firing, time passes, and  *)
(* the server answers what it reads; a runnable callback goroutine is     *)
(* eventually scheduled.  The application and the other users owe nothing. *)
Fairness ==
    /\ WF_vars(ReadLoop) /\ WF_vars(Server)
    /\ WF_vars(PingTick) /\ WF_vars(PingSend) /\ WF_vars(NickSend)
    /\ WF_vars(MainPingTick) /\ WF_vars(StaleCallback)
    /\ WF_vars(WindowExpires)

Spec == Init /\ [][Next]_vars /\ Fairness

-----------------------------------------------------------------------------
Nicks == STRING
Events == [code : STRING, src : STRING, args : Seq(STRING), own : BOOLEAN]

TypeOK ==
    /\ {nick, nickcurrent, nickPending, nickError, srvNick} \subseteq Nicks
    /\ nickChangeInProgress \in BOOLEAN /\ nickChangeWindow \in BOOLEAN
    /\ fullyConnected \in BOOLEAN /\ registrationSteps \in 0..5
    /\ stale \in BOOLEAN /\ rev \in Revisions
    /\ unsent \in [Senders -> Nicks]
    /\ out \in Seq([cmd : {"NICK", "USER", "PING", "PONG"}, arg : Nicks])
    /\ Len(out) <= QueueCap
    /\ in \in Seq(Events)
    /\ {gotUser, registered, restricted} \subseteq BOOLEAN
    /\ taken \subseteq Others \cup OtherNicks
    /\ nickCalls \in 0..MaxNickCalls /\ envSteps \in 0..MaxEnvSteps

(* Registration completes: as long as the application never asks for an  *)
(* empty nick, the 433/436/437/432 retries together with the pingLoop     *)
(* retry of the desired nick eventually get a nick accepted and the 001   *)
(* welcome processed, however many candidate nicks are taken: the server  *)
(* registers the client and the client marks itself fullyConnected.      *)
RegistrationCompletes == [](nick # "") => <>(registered /\ fullyConnected)

(* fullyConnected (GetNickStatus().Confirmed) is never set before the     *)
(* server has registered the client, whichever of the 001..005, 376/422,  *)
(* PING, JOIN, PART, MODE and PRIVMSG handlers set it, however the        *)
(* server's PINGs and other users' traffic interleave with registration.  *)
ConnectedOnlyWhenRegistered == fullyConnected => registered

\* A NICK command for n is computed but not sent, or sits in pwrite.
NickOnTheWay(n) ==
    \/ \E s \in Senders : unsent[s] = n
    \/ \E i \in 1..Len(out) : out[i] = Cmd("NICK", n)

(* The desired nick is never given up: while it differs from the nick the *)
(* client believes it has, a NICK command for it is eventually on its way *)
(* (pingLoop's retry), unless the application or the server changes the  *)
(* desired nick or makes it current first.                                *)
DesiredRetried ==
    \A n \in Requests \cup {InitialNick} :
        (nick = n /\ nick # nickcurrent) ~> (NickOnTheWay(n) \/ nick # n \/ nick = nickcurrent)

(* Only our own nick changes are adopted: when the reader applies a NICK  *)
(* event to nickcurrent, the event is about our connection and not about  *)
(* another user who happens to hold the nick the client believes it has  *)
(* (spec 4.5: confirmed is always a value the server acknowledged).       *)
AdoptsOnlyOwnNickChange ==
    [][ (in # <<>> /\ in' = Tail(in) /\ Head(in).code = "NICK"
         /\ nickcurrent' # nickcurrent) => Head(in).own ]_vars

====
