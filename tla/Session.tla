------------------------------ MODULE Session ------------------------------
(***************************************************************************)
(* Session lifecycle of go-ircevo (src/unnamed/part_001 = irc.go): the     *)
(* control loop Loop(), the three workers Connect() starts for every       *)
(* connection (readLoop, writeLoop, pingLoop), Reconnect(), and the        *)
(* application's Disconnect(), Quit() and SendRaw() calls.                 *)
(*                                                                         *)
(* Channels are modelled by what the code does with them.  The workers     *)
(* read the fields irc.end and irc.pwrite on every iteration, so only the  *)
(* channel currently stored in a field matters: endState and pwState are   *)
(* the states of those channels, pw the lines buffered in irc.pwrite.      *)
(* Each worker captured its connection's socket and Error channel when it  *)
(* started, so sockets and error channels are per connection number.       *)
(* Closing a closed channel or sending on one panics: the process dies.    *)
(***************************************************************************)
EXTENDS Integers, Sequences, FiniteSets

CONSTANTS
    MaxConnects,              \* bound on connections (the first + successful reconnects)
    MaxDialFailures,          \* bound on failed dials of Reconnect
    MaxRecoverableReconnects, \* Connection.MaxRecoverableReconnects (3 by default)
    PwriteCap,                \* capacity of irc.pwrite (10 in Connect)
    ErrorTexts,               \* ERROR texts, each the set of pattern families it contains
    MaxDisconnects,           \* bound on the application's Disconnect() calls
    MaxAppSends,              \* bound on the application's SendRaw() calls
    MaxLines                  \* bound on the server lines whose callbacks send (PING, 433)

Families == {"permanent", "server", "network", "recoverable"}

ASSUME /\ MaxConnects \in Nat \ {0} /\ MaxDialFailures \in Nat
       /\ MaxRecoverableReconnects \in Nat /\ PwriteCap \in Nat \ {0, 1}
       /\ ErrorTexts \subseteq SUBSET Families
       /\ MaxDisconnects \in Nat /\ MaxAppSends \in Nat /\ MaxLines \in Nat

Conns == 1..MaxConnects
Workers == {"reader", "writer", "pinger"}

VARIABLES
    endState,         \* irc.end: "nil", "open" or "closed"
    pwState,          \* irc.pwrite: "open" or "closed"
    pw,               \* lines buffered in irc.pwrite
    conn,             \* number of the newest connection (its socket, Error, workers)
    errs,             \* errs[c]: errors buffered in the Error channel of connection c
    sock,             \* sock[c]: "none", "open", "eof" (closed by the peer), "closed"
    wk,               \* wk[c][w]: where worker w of connection c is
    lock,             \* irc.Lock: "free", "user" (Disconnect), "worker" (the one in "nick")
    loop,             \* Loop(): where the control loop is
    errStr,           \* Loop(): the error it is handling
    recoverableReconnects,
    sentRegistration,
    user,             \* the application goroutine: "idle", "dwait", "qsend", "qlock"
    quit,
    panicked,
    dialFails, disconnects, quitCalled, appSends, lines    \* bounds

vars == <<endState, pwState, pw, conn, errs, sock, wk, lock, loop, errStr,
          recoverableReconnects, sentRegistration, user, quit, panicked,
          dialFails, disconnects, quitCalled, appSends, lines>>

\* AnalyzeErrorMessage: the first family, in this order, whose pattern the
\* lower-cased text contains; unknown texts are Recoverable.
AnalyzeErrorMessage(m) ==
    CASE "permanent" \in m -> "permanent"
      [] "server" \in m -> "server"
      [] "network" \in m -> "network"
      [] OTHER -> "recoverable"

\* Workers that have not called Done() on the WaitGroup.
Running == {<<c, w>> \in Conns \X Workers : wk[c][w] # "off"}

\* Mutant: a send that never blocks, as if pwrite had no bound.
SendPwriteUnbounded(line) ==
    IF pwState = "closed"
      THEN panicked' = TRUE /\ UNCHANGED pw
      ELSE pw' = Append(pw, line) /\ UNCHANGED panicked

\* A send on irc.pwrite: panics on a closed channel, blocks while it is full.
SendPwrite(line) ==
    IF pwState = "closed"
      THEN panicked' = TRUE /\ UNCHANGED pw
      ELSE Len(pw) < PwriteCap /\ pw' = Append(pw, line) /\ UNCHANGED panicked

\* close(irc.end), after the caller's nil check.
CloseEnd ==
    IF endState = "closed" THEN panicked' = TRUE /\ UNCHANGED endState
                           ELSE endState' = "closed" /\ UNCHANGED panicked

Report(c, e) == errs' = [errs EXCEPT ![c] = Append(@, e)]

SetWorker(c, w, s) == wk' = [wk EXCEPT ![c][w] = s]

\* irc.lastMessageMutex, held by a pinger across its keep-alive PING.
MessageMutexFree == \A d \in Conns : wk[d]["pinger"] # "ping1"

\* What the workers never change.
ctlVars == <<endState, pwState, conn, lock, loop, errStr, recoverableReconnects,
             sentRegistration, user, quit, dialFails, disconnects, quitCalled,
             appSends, lines>>

-----------------------------------------------------------------------------
(* The state after IRC(nick, user) and a successful Connect() on a server  *)
(* without CAP, with Loop() started: negotiateCaps queued NICK and USER.   *)
Init ==
    /\ endState = "open" /\ pwState = "open" /\ pw = <<"REG", "REG">>
    /\ conn = 1
    /\ errs = [c \in Conns |-> <<>>]
    /\ sock = [c \in Conns |-> IF c = 1 THEN "open" ELSE "none"]
    /\ wk = [c \in Conns |-> [w \in Workers |->
                IF c = 1 THEN (IF w = "reader" THEN "top" ELSE "run") ELSE "off"]]
    /\ lock = "free" /\ loop = "top" /\ errStr = "none"
    /\ recoverableReconnects = 0 /\ sentRegistration = TRUE
    /\ user = "idle" /\ quit = FALSE /\ panicked = FALSE
    /\ dialFails = 0 /\ disconnects = 0 /\ quitCalled = FALSE /\ appSends = 0
    /\ lines = 0

-----------------------------------------------------------------------------
(* readLoop of connection c.  "top": the select on irc.end; "reading":     *)
(* blocked in ReadString; "pong": the PING callback sends PONG before it   *)
(* locks; "lock": RunCallbacks waits for a callback that takes irc.Lock    *)
(* (001, 376, NICK, PING, ...); "retry": the 433 callback waits for it and *)
(* "nick" then sends the next alternative NICK while holding irc.Lock.     *)

ReaderTop(c) ==
    /\ wk[c]["reader"] = "top"
    /\ SetWorker(c, "reader", IF endState = "closed" THEN "off" ELSE "reading")
    /\ UNCHANGED <<errs, sock, pw, panicked, ctlVars>>

\* A line is read and lastMessage updated under lastMessageMutex; its
\* callbacks take the session lock, and those of PING and 433 also send.
ReaderLine(c) ==
    /\ wk[c]["reader"] = "reading" /\ sock[c] = "open" /\ MessageMutexFree
    /\ \/ SetWorker(c, "reader", "lock") /\ UNCHANGED lines
       \/ /\ lines < MaxLines /\ lines' = lines + 1
          /\ \E s \in {"pong", "retry"} : SetWorker(c, "reader", s)
    /\ UNCHANGED <<endState, pwState, conn, lock, loop, errStr, recoverableReconnects,
                   sentRegistration, user, quit, dialFails, disconnects,
                   quitCalled, appSends, lines, errs, sock, pw, panicked>>

\* The PING callback: SendRaw("PONG :" ...), then irc.Lock().
ReaderPong(c) ==
    /\ wk[c]["reader"] = "pong"
    /\ SendPwrite("PONG")
    /\ SetWorker(c, "reader", "lock")
    /\ UNCHANGED <<errs, sock, ctlVars>>

\* The callback gets irc.Lock; the 433 callback keeps it across SendRawf.
ReaderCallback(c) ==
    /\ wk[c]["reader"] \in {"lock", "retry"} /\ lock = "free"
    /\ IF wk[c]["reader"] = "lock"
         THEN SetWorker(c, "reader", "top") /\ UNCHANGED lock
         ELSE SetWorker(c, "reader", "nick") /\ lock' = "worker"
    /\ UNCHANGED <<endState, pwState, conn, loop, errStr, recoverableReconnects,
                   sentRegistration, user, quit, dialFails, disconnects,
                   quitCalled, appSends, lines, errs, sock, pw, panicked>>

\* SendRawf("NICK ...") under irc.Lock, then Unlock (433 callback, ticker2).
SendNick(c, w) ==
    /\ wk[c][w] = "nick"
    /\ SendPwrite("NICK")
    /\ lock' = "free"
    /\ SetWorker(c, w, IF w = "reader" THEN "top" ELSE "run")
    /\ UNCHANGED <<endState, pwState, conn, loop, errStr, recoverableReconnects,
                   sentRegistration, user, quit, dialFails, disconnects,
                   quitCalled, appSends, lines, errs, sock>>

\* ERROR from the server (HandleErrorAsDisconnect and SmartErrorHandling are
\* on by default): report the classified error and return; the server then
\* closes the link.
ReaderERROR(c) ==
    /\ wk[c]["reader"] = "reading" /\ sock[c] = "open" /\ MessageMutexFree
    /\ \E m \in ErrorTexts : Report(c, AnalyzeErrorMessage(m))
    /\ sock' = [sock EXCEPT ![c] = "eof"]
    /\ SetWorker(c, "reader", "off")
    /\ UNCHANGED <<pw, panicked, ctlVars>>

\* A read error: end of stream, a closed socket, or the read deadline
\* (Timeout + PingFreq) passing.
ReaderFail(c) ==
    /\ wk[c]["reader"] = "reading"
    /\ Report(c, "io")
    /\ SetWorker(c, "reader", "off")
    /\ UNCHANGED <<sock, pw, panicked, ctlVars>>

-----------------------------------------------------------------------------
(* writeLoop of connection c: a select on irc.end and irc.pwrite; it      *)
(* writes to the socket it captured when it started.                      *)

WriterEnd(c) ==
    /\ wk[c]["writer"] = "run" /\ endState = "closed"
    /\ SetWorker(c, "writer", "off")
    /\ UNCHANGED <<errs, sock, pw, panicked, ctlVars>>

\* A receive from a closed, drained irc.pwrite (!ok).
WriterClosedQueue(c) ==
    /\ wk[c]["writer"] = "run" /\ pwState = "closed" /\ pw = <<>>
    /\ SetWorker(c, "writer", "off")
    /\ UNCHANGED <<errs, sock, pw, panicked, ctlVars>>

\* Write one line; a write on a socket that is no longer open fails, is
\* reported, and ends the writer.  The server closes the link on QUIT.
WriterWrite(c) ==
    /\ wk[c]["writer"] = "run" /\ pw # <<>>
    /\ pw' = Tail(pw)
    /\ IF sock[c] = "open"
         THEN /\ sock' = [sock EXCEPT ![c] = IF Head(pw) = "QUIT" THEN "eof" ELSE "open"]
              /\ UNCHANGED <<wk, errs>>
         ELSE /\ Report(c, "io") /\ SetWorker(c, "writer", "off")
              /\ UNCHANGED sock
    /\ UNCHANGED <<panicked, ctlVars>>

-----------------------------------------------------------------------------
(* pingLoop of connection c: a select on the two tickers and irc.end.     *)
(* "ping1": a keep-alive tick holds lastMessageMutex and sends PING;      *)
(* "ping2": a tick of ticker2 sends PING; "lock": the ticker2 branch waits *)
(* for irc.Lock to compare nick with nickcurrent; "nick": they differ and  *)
(* it sends NICK under the lock (src/irc.go).                              *)

PingerEnd(c) ==
    /\ wk[c]["pinger"] = "run" /\ endState = "closed"
    /\ SetWorker(c, "pinger", "off")
    /\ UNCHANGED <<errs, sock, pw, panicked, ctlVars>>

\* Nothing will close irc.end: the writer of c has exited and Loop() has
\* returned or halted, so pwrite is never drained and end stays open.
Abandoned(c) == wk[c]["writer"] = "off" /\ endState = "open" /\ loop \in {"halted", "done"}

\* The tickers fire at least a minute apart, far longer than a running
\* writer needs for one line and than Loop needs to close irc.end after a
\* failure: a tick finds no earlier PING still queued, unless the pinger
\* is abandoned, when one PING a minute piles up in pwrite.
PingerTick(c) ==
    /\ wk[c]["pinger"] = "run"
    /\ ~Abandoned(c) => \A i \in 1..Len(pw) : pw[i] # "PING"
    /\ \/ MessageMutexFree /\ SetWorker(c, "pinger", "ping1")
       \/ SetWorker(c, "pinger", "ping2")
    /\ UNCHANGED <<errs, sock, pw, panicked, ctlVars>>

PingerSend(c) ==
    /\ wk[c]["pinger"] \in {"ping1", "ping2"}
    /\ SendPwrite("PING")
    /\ SetWorker(c, "pinger", IF wk[c]["pinger"] = "ping2" THEN "lock" ELSE "run")
    /\ UNCHANGED <<errs, sock, ctlVars>>

\* irc.Lock(); if nick # nickcurrent (NickTracking decides) go on to NICK.
PingerLock(c) ==
    /\ wk[c]["pinger"] = "lock" /\ lock = "free"
    /\ \/ SetWorker(c, "pinger", "run") /\ UNCHANGED lock
       \/ SetWorker(c, "pinger", "nick") /\ lock' = "worker"
    /\ UNCHANGED <<endState, pwState, conn, loop, errStr, recoverableReconnects,
                   sentRegistration, user, quit, dialFails, disconnects,
                   quitCalled, appSends, lines, errs, sock, pw, panicked>>

-----------------------------------------------------------------------------
(* Loop(): "top" is the outer for's isQuitting(), "recv" the receive on    *)
(* its errChan (the Error channel of the newest connection), "close" the   *)
(* close(irc.end), "wait" irc.Wait(), "retry" the inner for.               *)

loopVars == <<errStr, recoverableReconnects, sentRegistration, dialFails>>
userVars == <<user, quit, disconnects, quitCalled, appSends, lines>>

LoopTop ==
    /\ loop = "top" /\ lock = "free"
    /\ loop' = IF quit THEN "done" ELSE "recv"
    /\ UNCHANGED <<endState, pwState, pw, conn, errs, sock, wk, lock, panicked,
                   loopVars, userVars>>

\* A permanent ERROR halts; so does a Recoverable one once the counter has
\* reached the ceiling; anything else is handled by reconnecting.
LoopRecv ==
    /\ loop = "recv" /\ errs[conn] # <<>>
    /\ LET e == Head(errs[conn]) IN
         /\ errStr' = e
         /\ loop' = IF \/ e = "permanent"
                       \/ /\ e = "recoverable" /\ MaxRecoverableReconnects > 0
                          /\ recoverableReconnects >= MaxRecoverableReconnects
                      THEN "halted" ELSE "close"
    /\ errs' = [errs EXCEPT ![conn] = Tail(@)]
    /\ UNCHANGED <<endState, pwState, pw, conn, sock, wk, lock, panicked,
                   recoverableReconnects, sentRegistration, dialFails, userVars>>

LoopClose ==
    /\ loop = "close"
    /\ IF endState = "nil" THEN UNCHANGED <<endState, panicked>> ELSE CloseEnd
    /\ loop' = "wait"
    /\ UNCHANGED <<pwState, pw, conn, errs, sock, wk, lock, loopVars, userVars>>

\* Mutant: Loop reconnects without irc.Wait() for the old workers.
LoopWaitNoJoin ==
    /\ loop = "wait"
    /\ loop' = "retry"
    /\ UNCHANGED <<endState, pwState, pw, conn, errs, sock, wk, lock, panicked,
                   loopVars, userVars>>

LoopWait ==
    /\ loop = "wait" /\ Running = {}
    /\ loop' = "retry"
    /\ UNCHANGED <<endState, pwState, pw, conn, errs, sock, wk, lock, panicked,
                   loopVars, userVars>>

\* The inner for ends when isQuitting(); the outer one then returns.
LoopQuitting ==
    /\ loop = "retry" /\ lock = "free" /\ quit
    /\ loop' = "top"
    /\ UNCHANGED <<endState, pwState, pw, conn, errs, sock, wk, lock, panicked,
                   loopVars, userVars>>

\* One pass of the inner for counts a Recoverable error as an attempt.
Attempt == IF errStr = "recoverable" THEN 1 ELSE 0

(* Reconnect() succeeds: it makes a new irc.end; Connect() dials, makes    *)
(* pwrite and Error, starts the three workers and runs negotiateCaps,      *)
(* which queues NICK/USER only if sentRegistration is still unset.  Loop   *)
(* takes the new Error channel and resets the counter.                     *)
ReconnectOK ==
    /\ loop = "retry" /\ lock = "free" /\ ~quit
    /\ conn < MaxConnects
    /\ LET n == conn + 1 IN
         /\ conn' = n
         /\ sock' = [sock EXCEPT ![n] = "open"]
         /\ wk' = [wk EXCEPT ![n] = [w \in Workers |->
                                       IF w = "reader" THEN "top" ELSE "run"]]
         /\ IF sentRegistration
              THEN pw' = <<>> ELSE pw' = <<"REG", "REG">>
    /\ endState' = "open" /\ pwState' = "open"
    /\ sentRegistration' = TRUE
    /\ recoverableReconnects' = 0
    /\ loop' = "top"
    /\ UNCHANGED <<errs, lock, panicked, errStr, dialFails, userVars>>

\* Reconnect() fails to dial (after making a new irc.end); Loop sleeps 60 s.
ReconnectFail ==
    /\ loop = "retry" /\ lock = "free" /\ ~quit
    /\ dialFails < MaxDialFailures
    /\ dialFails' = dialFails + 1
    /\ endState' = "open"
    /\ recoverableReconnects' = recoverableReconnects + Attempt
    /\ UNCHANGED <<pwState, pw, conn, errs, sock, wk, lock, loop, panicked,
                   errStr, sentRegistration, userVars>>

-----------------------------------------------------------------------------
(* The application goroutine.                                              *)

ctlNotUser == <<conn, errs, sock, wk, loop, loopVars, lines>>

\* SendRaw(): Privmsg, Join and the other commands.
AppSend ==
    /\ user = "idle" /\ appSends < MaxAppSends
    /\ SendPwrite("APP")
    /\ appSends' = appSends + 1
    /\ UNCHANGED <<endState, pwState, lock, ctlNotUser, user, quit, disconnects,
                   quitCalled>>

(* Disconnect(), first part: take irc.Lock, reset the registration state,  *)
(* close irc.end if it is not nil; the lock is kept across Wait().         *)
DisconnectLock ==
    /\ user = "idle" /\ disconnects < MaxDisconnects /\ lock = "free"
    /\ lock' = "user" /\ user' = "dwait"
    /\ disconnects' = disconnects + 1
    /\ IF endState = "nil" THEN UNCHANGED <<endState, panicked>> ELSE CloseEnd
    /\ UNCHANGED <<pwState, pw, ctlNotUser, quit, quitCalled, appSends>>

(* Disconnect(), after Wait(): irc.end = nil, close(irc.pwrite) (never nil *)
(* after the first Connect), close the newest socket, send ErrDisconnected *)
(* on the Error channel, unlock.                                           *)
DisconnectFinish ==
    /\ user = "dwait" /\ Running = {}
    /\ endState' = "nil"
    /\ IF pwState = "closed" THEN panicked' = TRUE /\ UNCHANGED pwState
                              ELSE pwState' = "closed" /\ UNCHANGED panicked
    /\ sock' = [sock EXCEPT ![conn] = "closed"]
    /\ Report(conn, "disconnected")
    /\ lock' = "free" /\ user' = "idle"
    /\ UNCHANGED <<pw, conn, wk, loop, loopVars, quit, disconnects, quitCalled, appSends,
                   lines>>

\* Quit(): after its 1 s sleep, SendRaw(QUIT) ...
QuitSend ==
    /\ user = "idle" /\ ~quitCalled
    /\ SendPwrite("QUIT")
    /\ quitCalled' = TRUE /\ user' = "qlock"
    /\ UNCHANGED <<endState, pwState, lock, ctlNotUser, quit, disconnects,
                   appSends>>

\* ... then stopped = quit = true under the lock.
QuitLock ==
    /\ user = "qlock" /\ lock = "free"
    /\ quit' = TRUE /\ user' = "idle"
    /\ UNCHANGED <<endState, pwState, pw, lock, panicked, ctlNotUser, disconnects,
                   quitCalled, appSends>>

-----------------------------------------------------------------------------
WorkerStep(c) ==
    \/ ReaderTop(c) \/ ReaderLine(c) \/ ReaderPong(c) \/ ReaderCallback(c)
    \/ ReaderERROR(c) \/ ReaderFail(c)
    \/ \E w \in {"reader", "pinger"} : SendNick(c, w)
    \/ WriterEnd(c) \/ WriterClosedQueue(c) \/ WriterWrite(c)
    \/ PingerEnd(c) \/ PingerTick(c) \/ PingerSend(c) \/ PingerLock(c)

LoopStep ==
    \/ LoopTop \/ LoopRecv \/ LoopClose \/ LoopWait \/ LoopQuitting
    \/ ReconnectOK \/ ReconnectFail

UserStep ==
    \/ AppSend \/ DisconnectLock \/ DisconnectFinish \/ QuitSend \/ QuitLock

\* A panic ends the process: nothing moves after it.
Next ==
    /\ ~panicked
    /\ \/ \E c \in Conns : WorkerStep(c)
       \/ LoopStep
       \/ UserStep

(* Goroutines that are not blocked run.  A read always ends, at the latest *)
(* when its deadline passes.  Go's select picks among ready cases at       *)
(* random, so a pinger that keeps ticking still eventually takes the       *)
(* ready irc.end case (strong fairness).  A send blocked on a full pwrite  *)
(* goes through once the writer drains it for good; every other sender is *)
(* bounded, so weak fairness suffices.  The application owes nothing     *)
(* but to finish a Disconnect() or Quit() it has started.                  *)
Fairness ==
    /\ \A c \in Conns :
         /\ WF_vars(ReaderTop(c)) /\ WF_vars(ReaderCallback(c)) /\ WF_vars(ReaderFail(c))
         /\ WF_vars(ReaderPong(c)) /\ WF_vars(SendNick(c, "reader"))
         /\ WF_vars(SendNick(c, "pinger"))
         /\ WF_vars(WriterEnd(c)) /\ WF_vars(WriterClosedQueue(c)) /\ WF_vars(WriterWrite(c))
         /\ SF_vars(PingerEnd(c)) /\ WF_vars(PingerTick(c))
         /\ WF_vars(PingerSend(c)) /\ WF_vars(PingerLock(c))
    /\ WF_vars(LoopTop) /\ WF_vars(LoopRecv) /\ WF_vars(LoopClose)
    /\ WF_vars(LoopWait) /\ WF_vars(LoopQuitting) /\ WF_vars(ReconnectOK)
    /\ WF_vars(DisconnectFinish) /\ WF_vars(QuitLock)

Spec == Init /\ [][Next]_vars /\ Fairness

-----------------------------------------------------------------------------
Errors == {"permanent", "recoverable", "server", "network", "io", "disconnected"}

TypeOK ==
    /\ endState \in {"nil", "open", "closed"} /\ pwState \in {"open", "closed"}
    /\ pw \in Seq({"REG", "PING", "QUIT", "APP", "PONG", "NICK"}) /\ Len(pw) <= PwriteCap
    /\ conn \in Conns
    /\ errs \in [Conns -> Seq(Errors)]
    /\ sock \in [Conns -> {"none", "open", "eof", "closed"}]
    /\ wk \in [Conns -> [Workers -> {"off", "top", "reading", "pong", "lock", "retry", "nick", "run",
                                          "ping1", "ping2"}]]
    /\ lock \in {"free", "user"} \cup {"worker"}
    /\ loop \in {"top", "recv", "close", "wait", "retry", "halted", "done"}
    /\ errStr \in Errors \cup {"none"}
    /\ recoverableReconnects \in 0..MaxDialFailures + 1
    /\ user \in {"idle", "dwait", "qlock"}
    /\ {sentRegistration, quit, panicked, quitCalled} \subseteq BOOLEAN
    /\ dialFails \in 0..MaxDialFailures /\ disconnects \in 0..MaxDisconnects
    /\ appSends \in 0..MaxAppSends /\ lines \in 0..MaxLines

(* One connection at a time (spec 5: reconnection is strictly sequential): *)
(* every worker still running belongs to the newest connection, so no      *)
(* reader, writer or pinger of an earlier connection outlives the          *)
(* Reconnect() that replaced it (Loop's close(irc.end) and Wait()).        *)
OneConnectionAtATime == \A r \in Running : r[1] = conn

(* The process never panics: irc.end and irc.pwrite are never closed      *)
(* twice and nothing is sent on a closed irc.pwrite, however Loop(),      *)
(* Disconnect(), Quit() and the workers interleave.                        *)
NoPanic == ~panicked

(* Disconnect() returns: once it holds the lock and waits for the workers, *)
(* it eventually completes, whatever the reader and pinger are doing.      *)
DisconnectReturns == (user = "dwait") ~> (user = "idle")

(* A transient failure leads to a new connection (spec 4.6: Server,       *)
(* Network and Recoverable failures below the ceiling trigger Reconnect): *)
(* once Loop has taken such an error from connection c, the workers of c  *)
(* all exit, Wait() returns and Loop connects again, unless the          *)
(* application called Quit() or Disconnect() meanwhile.                   *)
FailureReconnects ==
    \A c \in 1..MaxConnects - 1 :
        (conn = c /\ loop = "close") ~> (conn > c \/ quit \/ disconnects > 0)

(* Quit() stops the session: when quit is set while Loop waits for an     *)
(* error, the server closes the link after QUIT, the reader reports it,   *)
(* Loop closes irc.end, waits for the workers, sees isQuitting() instead  *)
(* of reconnecting and returns, and no worker is left running.            *)
QuitStops == (quit /\ loop = "recv") ~> (loop = "done" /\ Running = {})

====
