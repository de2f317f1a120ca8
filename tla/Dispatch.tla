------------------------------ MODULE Dispatch ------------------------------
(***************************************************************************)
(* Event dispatch of go-ircevo (src/irc_struct.go, the irc_callback.go     *)
(* part at lines 377-972): the callback registry irc.events guarded by     *)
(* eventsMutex (AddCallback, RemoveCallback, ClearCallback,                *)
(* ReplaceCallback, called by the application) and RunCallbacks, called by *)
(* readLoop for one event at a time.  RunCallbacks copies the callbacks of *)
(* the event's code and of "*" under the mutex, starts one goroutine per   *)
(* callback and waits for all of them, or, when CallbackTimeout is set,    *)
(* until its context expires; callbacks still running are abandoned.       *)
(*                                                                         *)
(* A callback is "quick" (returns) or "blocking" (never returns, e.g. it   *)
(* waits for a lock or a channel).                                         *)
(*                                                                         *)
(* The reader is readLoop (src/irc.go 73-122): it reads a raw line, parses *)
(* it with parseToEvent (module Parser) and dispatches the event.          *)
(***************************************************************************)
EXTENDS Parser, FiniteSets, Functions

CONSTANTS
    RegCodes,        \* event codes the application registers for ("*" = all)
    Inputs,          \* raw lines the server may send
    Sent,            \* the messages some of them encode (see Wire in Parser)
    HandleErrorAsDisconnect,
    Handlers,        \* callback bodies: "quick" or "blocking"
    Timeout,         \* CallbackTimeout != 0
    MaxIds,          \* bound on irc.idCounter
    MaxEvents,       \* bound on lines read
    MaxOps           \* bound on the application's registry calls

ASSUME /\ Handlers \subseteq {"quick", "blocking"} /\ Timeout \in BOOLEAN
       /\ HandleErrorAsDisconnect \in BOOLEAN /\ {Wire(m) : m \in Sent} \subseteq Inputs
       /\ MaxIds \in Nat /\ MaxEvents \in Nat \ {0} /\ MaxOps \in Nat

Ids == 0..MaxIds - 1
Disp == 1..MaxEvents
GState == {"none", "run", "blocked", "send", "exited"}

VARIABLES
    events,     \* irc.events: code -> (id -> callback); DOMAIN = codes present
    idCounter,  \* irc.idCounter
    dn,         \* number of the newest RunCallbacks call
    cur,        \* code it dispatched ("invalid": dropped CTCP line)
    rd,         \* the reader: "idle", "wait" (the join loop of RunCallbacks),
                \* "stopped" (returned after an ERROR) or "crashed" (panicked)
    nread,      \* lines read
    line,       \* the newest line read
    pending,    \* the callbacks map of RunCallbacks: ids not yet joined
    ctxDone,    \* event.Ctx of the newest call is done
    gst,        \* gst[<<d, i>>]: goroutine of callback i started by call d
    ops

vars == <<events, idCounter, dn, cur, rd, nread, line, pending, ctxDone, gst, ops>>

-----------------------------------------------------------------------------
(* The code RunCallbacks dispatches: a PRIVMSG whose message is longer    *)
(* than two characters and starts with \x01 is CTCP; without a later      *)
(* \x01 it is logged and dropped; a known sub-command gives CTCP_<sub>     *)
(* (PING and ACTION by prefix), any other CTCP.                            *)
CtcpCode(m) ==
    CASE m = "VERSION" -> "CTCP_VERSION"
      [] m = "TIME" -> "CTCP_TIME"
      [] HasPrefix(m, "PING") -> "CTCP_PING"
      [] m = "USERINFO" -> "CTCP_USERINFO"
      [] m = "CLIENTINFO" -> "CTCP_CLIENTINFO"
      [] HasPrefix(m, "ACTION") -> "CTCP_ACTION"
      [] OTHER -> "CTCP"

DispatchCode(e) ==
    LET msg == Message(e)
        i == LastIndex(msg, CtcpMark)
    IN IF e.code = "PRIVMSG" /\ Len(msg) > 2 /\ Char(msg, 1) = CtcpMark
         THEN IF i > 1 THEN CtcpCode(SubSeq(msg, 2, i - 1)) ELSE "invalid"
         ELSE e.code

\* The ids registered for a code (a code absent from irc.events has none).
Registered(c) == IF c \in DOMAIN events THEN DOMAIN events[c] ELSE {}

\* Mutant: the callbacks registered for "*" are not copied.
SnapshotCodeOnly(c) == [i \in Registered(c) |-> events[c][i]]

\* The copy RunCallbacks makes: the code's callbacks, then those of "*",
\* into one map keyed by id.
Snapshot(c) ==
    LET own == Registered(c)
        all == Registered("*")
    IN [i \in own \cup all |-> IF i \in all THEN events["*"][i] ELSE events[c][i]]

NoCallbacks == <<>>

-----------------------------------------------------------------------------
Init ==
    \* IRC() ran setupCallbacks: of its callbacks those of the model's codes,
    \* CTCP_VERSION and PRIVMSG, under ids below idCounter.
    /\ events = ("CTCP_VERSION" :> (0 :> "quick")) @@ ("PRIVMSG" :> (1 :> "quick"))
    /\ idCounter = 2
    /\ dn = 0 /\ cur = "none" /\ rd = "idle" /\ pending = {} /\ ctxDone = FALSE
    /\ nread = 0 /\ line = ""
    /\ gst = [g \in Disp \X Ids |-> "none"]
    /\ ops = 0

regVars == <<dn, cur, rd, nread, line, pending, ctxDone, gst>>

\* Mutant: the id is read after the increment.
AddCallbackIdAfterIncrement(code, h) ==
    /\ ops < MaxOps /\ idCounter < MaxIds
    /\ events' = IF code \in DOMAIN events
                   THEN [events EXCEPT ![code] = @ @@ ((idCounter + 1) :> h)]
                   ELSE events @@ (code :> ((idCounter + 1) :> h))
    /\ idCounter' = idCounter + 1
    /\ ops' = ops + 1
    /\ UNCHANGED regVars

AddCallback(code, h) ==
    /\ ops < MaxOps /\ idCounter < MaxIds
    /\ events' = IF code \in DOMAIN events
                   THEN [events EXCEPT ![code] = @ @@ (idCounter :> h)]
                   ELSE events @@ (code :> (idCounter :> h))
    /\ idCounter' = idCounter + 1
    /\ ops' = ops + 1
    /\ UNCHANGED regVars

\* Deletes and returns true, or logs and returns false.
RemoveCallback(code, i) ==
    /\ ops < MaxOps
    /\ events' = IF i \in Registered(code)
                   THEN [events EXCEPT ![code] = Restrict(@, DOMAIN @ \ {i})]
                   ELSE events
    /\ ops' = ops + 1
    /\ UNCHANGED <<idCounter, regVars>>

ClearCallback(code) ==
    /\ ops < MaxOps
    /\ events' = IF code \in DOMAIN events
                   THEN [events EXCEPT ![code] = NoCallbacks]
                   ELSE events
    /\ ops' = ops + 1
    /\ UNCHANGED <<idCounter, regVars>>

ReplaceCallback(code, i, h) ==
    /\ ops < MaxOps
    /\ events' = IF i \in Registered(code)
                   THEN [events EXCEPT ![code][i] = h]
                   ELSE events
    /\ ops' = ops + 1
    /\ UNCHANGED <<idCounter, regVars>>

-----------------------------------------------------------------------------
(* RunCallbacks(event): the CTCP rewrite, the copy under eventsMutex, and  *)
(* one goroutine per copied callback; with nothing copied it returns at    *)
(* once.  A blocking callback never leaves its body.                       *)
RunCallbacks(e) ==
    /\ LET c == DispatchCode(e)
           d == dn + 1
           S == IF c = "invalid" THEN NoCallbacks ELSE Snapshot(c)
       IN /\ dn' = d /\ cur' = c
          /\ gst' = [g \in DOMAIN gst |->
                       IF g[1] = d /\ g[2] \in DOMAIN S
                         THEN IF S[g[2]] = "quick" THEN "run" ELSE "blocked"
                         ELSE gst[g]]
          /\ pending' = DOMAIN S
          /\ rd' = IF DOMAIN S = {} THEN "idle" ELSE "wait"
          /\ ctxDone' = FALSE
    /\ UNCHANGED <<events, idCounter, ops>>

\* The parse of every line the server may send, computed once.
Parsed == [l \in Inputs |-> ParseToEvent(l)]

(* One iteration of readLoop after ReadString returned a line: a line     *)
(* parseToEvent rejects is skipped, an ERROR line ends the reader when    *)
(* HandleErrorAsDisconnect is set (the error goes to Loop), any other is  *)
(* dispatched.  A panic in parseToEvent ends the process.                 *)
ReadLine(l) ==
    /\ rd = "idle" /\ nread < MaxEvents
    /\ nread' = nread + 1 /\ line' = l
    /\ LET e == Parsed[l]
       IN \/ e.result = "panic" /\ rd' = "crashed"
             /\ UNCHANGED <<dn, cur, pending, ctxDone, gst>>
          \/ e.result = "error"
             /\ UNCHANGED <<dn, cur, rd, pending, ctxDone, gst>>
          \/ e.result = "event" /\ HandleErrorAsDisconnect /\ e.code = "ERROR"
             /\ rd' = "stopped"
             /\ UNCHANGED <<dn, cur, pending, ctxDone, gst>>
          \/ e.result = "event" /\ ~(HandleErrorAsDisconnect /\ e.code = "ERROR")
             /\ RunCallbacks(e)
    /\ UNCHANGED <<events, idCounter, ops>>

\* cb(event) returns.
CallbackBody(g) ==
    /\ gst[g] = "run"
    /\ gst' = [gst EXCEPT ![g] = "send"]
    /\ UNCHANGED <<events, idCounter, dn, cur, nread, line, rd, pending, ctxDone, ops>>

\* Mutant: the join loop stops while one callback is still pending.
CallbackDoneEarly(g) ==
    /\ gst[g] = "send" /\ g[1] = dn /\ rd = "wait" /\ g[2] \in pending
    /\ gst' = [gst EXCEPT ![g] = "exited"]
    /\ pending' = pending \ {g[2]}
    /\ rd' = IF Cardinality(pending') <= 1 THEN "idle" ELSE "wait"
    /\ ctxDone' = (ctxDone \/ (Timeout /\ Cardinality(pending') <= 1))
    /\ UNCHANGED <<events, idCounter, dn, cur, nread, line, ops>>

\* select: done <- id, received by the join loop of the same call ...
CallbackDone(g) ==
    /\ gst[g] = "send" /\ g[1] = dn /\ rd = "wait" /\ g[2] \in pending
    /\ gst' = [gst EXCEPT ![g] = "exited"]
    /\ pending' = pending \ {g[2]}
    /\ rd' = IF pending' = {} THEN "idle" ELSE "wait"
    \* the deferred cancel() when the loop ends
    /\ ctxDone' = (ctxDone \/ (Timeout /\ pending' = {}))
    /\ UNCHANGED <<events, idCounter, dn, cur, nread, line, ops>>

\* Mutant: a plain done <- id without the select on the context.
CallbackSendOnly(g) == CallbackDone(g)

\* ... or <-event.Ctx.Done(): the call has timed out or returned.
CallbackCanceled(g) ==
    /\ gst[g] = "send" /\ (g[1] < dn \/ ctxDone)
    /\ gst' = [gst EXCEPT ![g] = "exited"]
    /\ UNCHANGED <<events, idCounter, dn, cur, nread, line, rd, pending, ctxDone, ops>>

\* Mutant: the context gets its deadline only when CallbackTimeout == 0.
ExpireInverted ==
    /\ ~Timeout /\ rd = "wait" /\ ~ctxDone
    /\ ctxDone' = TRUE
    /\ UNCHANGED <<events, idCounter, dn, cur, nread, line, rd, pending, gst, ops>>

\* context.WithTimeout expires while the join loop waits.
Expire ==
    /\ Timeout /\ rd = "wait" /\ ~ctxDone
    /\ ctxDone' = TRUE
    /\ UNCHANGED <<events, idCounter, dn, cur, nread, line, rd, pending, gst, ops>>

\* The join loop takes <-event.Ctx.Done(): log the abandoned callbacks, return.
JoinTimeout ==
    /\ rd = "wait" /\ ctxDone
    /\ rd' = "idle" /\ pending' = {}
    /\ UNCHANGED <<events, idCounter, dn, cur, nread, line, ctxDone, gst, ops>>

-----------------------------------------------------------------------------
Goroutines == Disp \X Ids

Step ==
    \/ \E c \in RegCodes, h \in Handlers : AddCallback(c, h)
    \/ \E c \in RegCodes, i \in Ids : RemoveCallback(c, i)
    \/ \E c \in RegCodes : ClearCallback(c)
    \/ \E c \in RegCodes, i \in Ids, h \in Handlers : ReplaceCallback(c, i, h)
    \/ \E l \in Inputs : ReadLine(l)
    \/ \E g \in Goroutines : CallbackBody(g) \/ CallbackDone(g) \/ CallbackCanceled(g)
    \/ Expire \/ JoinTimeout

\* A panic ends every goroutine of the process.
Alive == rd # "crashed"

Next == Alive /\ Step

(* Goroutines that can run do; the timer fires.  The application's calls  *)
(* and the server's lines owe nothing.                                     *)
Fairness ==
    /\ \A g \in Goroutines :
         /\ WF_vars(Alive /\ CallbackBody(g)) /\ WF_vars(Alive /\ CallbackDone(g))
         /\ WF_vars(Alive /\ CallbackCanceled(g))
    /\ WF_vars(Alive /\ Expire) /\ WF_vars(Alive /\ JoinTimeout)

Spec == Init /\ [][Next]_vars /\ Fairness

-----------------------------------------------------------------------------
(* Type invariant; the ids in the registry are all below irc.idCounter,   *)
(* so the next AddCallback never reuses one.                               *)
TypeOK ==
    /\ DOMAIN events \subseteq RegCodes \cup {"CTCP_VERSION"}
    /\ \A c \in DOMAIN events : DOMAIN events[c] \subseteq 0..idCounter - 1
                               /\ \A i \in DOMAIN events[c] : events[c][i] \in Handlers \cup {"quick"}
    /\ idCounter \in 0..MaxIds /\ dn \in 0..MaxEvents
    /\ rd \in {"idle", "wait", "stopped", "crashed"} /\ nread \in 0..MaxEvents /\ line \in Inputs \cup {""}
    /\ pending \subseteq Ids /\ ctxDone \in BOOLEAN
    /\ gst \in [Disp \X Ids -> GState]
    /\ ops \in 0..MaxOps

(* Every callback registered for the event's code or for "*" when          *)
(* RunCallbacks copies the registry is started for that event: ids are     *)
(* unique across codes, so merging the two maps by id loses none.          *)
EveryCallbackRuns ==
    [][dn' = dn + 1 /\ cur' # "invalid" =>
         Cardinality({g \in Goroutines : g[1] = dn' /\ gst'[g] # "none"})
           = Cardinality(Registered(cur')) + Cardinality(Registered("*"))]_vars

(* RunCallbacks returns (spec 4.7: wait for all handlers or for the        *)
(* timeout): with CallbackTimeout set, the reader is never held by a       *)
(* callback that does not return.                                          *)
DispatchReturns == (rd = "wait") ~> (rd = "idle")

(* No goroutine leaks once its callback has returned: it hands its id to   *)
(* the join loop or sees the context done, even after RunCallbacks has     *)
(* abandoned it.                                                           *)
GoroutinesExit == \A g \in Goroutines : (gst[g] = "send") ~> (gst[g] = "exited")

-----------------------------------------------------------------------------
(* Refinement: the registry is the set of (code, id, callback) triples of *)
(* irc.events; a fan-out is busy while readLoop waits in the join loop; a *)
(* callback is running until its body returns (the goroutine's later send *)
(* or cancel is invisible); the abstract timeout is the context's.         *)
\* Every code the registry or a line read may carry.
AllCodes == RegCodes \cup {"CTCP_VERSION"} \cup
            {DispatchCode(Parsed[l]) : l \in {k \in Inputs : Parsed[k].result = "event"}}

Abs == INSTANCE CallbackRegistry WITH
    Codes <- AllCodes,
    Bodies <- {"quick", "blocking"},
    handlers <- UNION {{<<c, i, events[c][i]>> : i \in DOMAIN events[c]} : c \in DOMAIN events},
    nextId <- idCounter,
    dispatched <- dn,
    busy <- rd = "wait",
    running <- {<<g[1], g[2], IF gst[g] = "run" THEN "quick" ELSE "blocking">> :
                  g \in {h \in Goroutines : gst[h] \in {"run", "blocked"}}},
    expired <- ctxDone

\* The reference for every message, computed once.
Expected == [m \in Sent |-> [line |-> Wire(m), code |-> Meaning(m), tags |-> TagsSent(m),
                             source |-> IF m.host = "" THEN "" ELSE Prefix(m)]]

(* A line the server sends in the message format reaches the callbacks of *)
(* the code spec 4.7 gives it, with the source, arguments and tags it was  *)
(* sent with: readLoop, parseToEvent with its tag unescaping and the CTCP  *)
(* rewrite of RunCallbacks together recover the message.  An ERROR line    *)
(* instead ends the reader when HandleErrorAsDisconnect is set.  Checked   *)
(* for the messages of Sent, which hold " :" in a trailing argument, CTCP  *)
(* requests, a DCC offer, and a space, a ";" and an empty value in tags.   *)
(* Two classes are left out because parseToEvent is known to get them     *)
(* wrong: tag values with a backslash (decoded twice) and lines under five *)
(* characters (rejected as malformed).                                     *)
LineDispatchedAsSent ==
    [][\A m \in Sent :
         nread' > nread /\ line' = Expected[m].line =>
           LET e == Parsed[line'] IN
           /\ e.result = "event"
           /\ e.nick = m.nick /\ e.user = m.user /\ e.source = Expected[m].source
           /\ e.host = (IF m.nick = "" THEN "" ELSE m.host)
           /\ e.args = m.params \o m.trailing /\ e.tags = Expected[m].tags
           /\ \/ dn' = dn + 1 /\ cur' = Expected[m].code
              \/ HandleErrorAsDisconnect /\ m.command = "ERROR" /\ rd' = "stopped"]_vars

(* Dispatch implements the registry and fan-out the spec describes: every *)
(* step of the application's registry calls, RunCallbacks, its callback   *)
(* goroutines and its join loop is a step of CallbackRegistry, so         *)
(* RunCallbacks never returns while a callback it started is still running *)
(* unless its timeout expired, ids are never reused, and a dropped CTCP    *)
(* line starts nothing, not even the "*" callbacks.                        *)
RefinesRegistry == Abs!Spec

====
