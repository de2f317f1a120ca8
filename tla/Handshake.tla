----------------------------- MODULE Handshake -----------------------------
(***************************************************************************)
(* Capability negotiation and registration of one connection attempt in   *)
(* src/irc.go: the tail of Connect() (lines 641-668) and negotiateCaps()  *)
(* (681-771), against the reader running the negotiation callbacks and a  *)
(* server that follows the IRCv3 capability rules.                         *)
(*                                                                         *)
(* negotiateCaps requests "sasl" only when UseSASL is set (RequestCaps is  *)
(* reset on entry), so cap_chan has capacity 1 or the function returns at  *)
(* once.  The SASL callbacks (setupSASLCallbacks) are not in this          *)
(* repository's source; they are modelled from the described exchange:     *)
(* CAP ACK -> AUTHENTICATE <mech>, AUTHENTICATE + -> credentials,          *)
(* 903/904 -> a result sent on the unbuffered saslResChan.                 *)
(*                                                                         *)
(* Lines are abstracted to their command.  Client to server: "CAPLS"       *)
(* (negotiateCaps), "CAPLS302" (Connect), "REQ", "MECH", "CRED", "END",    *)
(* "NICK", "USER".  Server to client: "LS+"/"LS-" (a listing with or       *)
(* without sasl), "ACK", "NAK", "AUTH+", "903", "904", "001".              *)
(***************************************************************************)
EXTENDS Integers, Sequences, FiniteSets

CONSTANTS
    ServerKinds,   \* servers to connect to: "legacy" (no CAP), "cap", "capsasl"
    SASLChoices    \* values of irc.UseSASL

ASSUME ServerKinds \subseteq {"legacy", "cap", "capsasl"}
       /\ SASLChoices \subseteq BOOLEAN

\* The negotiation callbacks: negotiateCaps' own CAP callback and those of
\* setupSASLCallbacks.
CbNames == {"CAP", "SASL_CAP", "SASL_AUTH", "SASL_903", "SASL_904"}
CbCode(n) == CASE n \in {"CAP", "SASL_CAP"} -> "CAP"
               [] n = "SASL_AUTH"           -> "AUTHENTICATE"
               [] n = "SASL_903"            -> "903"
               [] n = "SASL_904"            -> "904"

\* The code readLoop's parseToEvent gives a server line.
LineCode(l) == CASE l \in {"LS+", "LS-", "ACK", "NAK"} -> "CAP"
                 [] l = "AUTH+"                        -> "AUTHENTICATE"
                 [] OTHER                              -> l

VARIABLES
    kind, useSASL,  \* the server and irc.UseSASL of this attempt
    pc,             \* Connect()/negotiateCaps: "start", "saslwait", "capwait",
                    \* "tail", "ok" (nil returned), "err"
    reqCaps,        \* len(irc.RequestCaps): 0 or 1
    capChan,        \* tokens buffered in cap_chan (capacity reqCaps)
    cbs,            \* negotiation callbacks still registered
    out,            \* lines queued on irc.pwrite, in the writer's order
    in,             \* lines the server sent, not yet read
    rd, line,       \* readLoop: "idle" or "busy" in RunCallbacks on line
    job,            \* job[n]: the goroutine of callback n: "none", "run",
                    \* "owe" (CAP: sending on cap_chan), "send" (on saslResChan)
    capOwed,        \* cap_chan sends the CAP callback has still to make
    saslRes,        \* the result a 903/904 callback is sending
    registered,     \* the 001 callback ran (fullyConnected)
    suspended, gotNick, gotUser, welcomed, authed   \* the server

srvVars == <<suspended, gotNick, gotUser, welcomed, authed>>
vars == <<kind, useSASL, pc, reqCaps, capChan, cbs, out, in, rd,
          line, job, capOwed, saslRes, registered, srvVars>>

NoJobs == [n \in CbNames |-> "none"]

(* Connect() has dialled, made pwrite and Error and started the three     *)
(* workers; WEBIRC and PASS (when set) are queued before negotiateCaps.     *)
Init ==
    /\ kind \in ServerKinds /\ useSASL \in SASLChoices
    \* irc.RequestCaps as IRC() made it, or as a previous Connect() (Reconnect)
    \* left it; negotiateCaps resets it, so a capability the application
    \* appended before Connect() would be discarded all the same
    /\ reqCaps \in {0, IF useSASL THEN 1 ELSE 0}
    /\ pc = "start" /\ capChan = 0
    /\ cbs = {} /\ out = <<>> /\ in = <<>>
    /\ rd = "idle" /\ line = "none" /\ job = NoJobs /\ capOwed = 0
    /\ saslRes = "none" /\ registered = FALSE
    /\ suspended = FALSE /\ gotNick = FALSE /\ gotUser = FALSE
    /\ welcomed = FALSE /\ authed = FALSE

-----------------------------------------------------------------------------
(* negotiateCaps up to its first wait.  Without SASL nothing is requested *)
(* and it returns nil at once; otherwise it registers the SASL callbacks  *)
(* and its CAP callback and sends CAP LS.                                  *)
NegotiateStart ==
    /\ pc = "start"
    /\ reqCaps' = IF useSASL THEN 1 ELSE 0
    /\ IF useSASL
         THEN /\ cbs' = CbNames
              /\ out' = Append(out, "CAPLS")
              /\ pc' = "saslwait"
         ELSE /\ pc' = "tail"
              /\ UNCHANGED <<cbs, out>>
    /\ UNCHANGED <<kind, useSASL, capChan, in, rd, line, job,
                   capOwed, saslRes, registered, srvVars>>

(* The deferred RemoveCallback of every negotiation callback, run when    *)
(* negotiateCaps returns.  Goroutines already started keep running.       *)
Return(to) == pc' = to /\ cbs' = {}

\* Mutant: the result is used without checking res.Failed.
SaslRecvIgnoresFailure ==
    /\ pc = "saslwait" /\ saslRes # "none"
    /\ saslRes' = "none"
    /\ job' = [n \in CbNames |-> IF job[n] = "send" THEN "none" ELSE job[n]]
    /\ pc' = "capwait"
    /\ UNCHANGED <<kind, useSASL, reqCaps, capChan, cbs, out, in, rd,
                   line, capOwed, registered, srvVars>>

\* case res := <-saslResChan: a failure is returned as the error.
SaslRecv ==
    /\ pc = "saslwait" /\ saslRes # "none"
    /\ saslRes' = "none"
    /\ job' = [n \in CbNames |-> IF job[n] = "send" THEN "none" ELSE job[n]]
    /\ IF saslRes = "fail" THEN Return("err") ELSE pc' = "capwait" /\ UNCHANGED cbs
    /\ UNCHANGED <<kind, useSASL, reqCaps, capChan, out, in, rd,
                   line, capOwed, registered, srvVars>>

\* Mutant: the SASL wait has no timeout case.
SaslTimeoutNever == FALSE

\* case <-time.After(CAP_TIMEOUT): "SASL setup timed out".
SaslTimeout ==
    /\ pc = "saslwait"
    /\ Return("err")
    /\ UNCHANGED <<kind, useSASL, reqCaps, capChan, out, in, rd,
                   line, job, capOwed, saslRes, registered, srvVars>>

(* remaining_caps := len(RequestCaps); the first <-cap_chan; the for loop *)
(* over the remaining ones (none: RequestCaps holds at most "sasl"); CAP  *)
(* END; return nil.                                                        *)
CapRecv ==
    /\ pc = "capwait" /\ capChan > 0
    /\ capChan' = capChan - 1
    /\ out' = Append(out, "END")
    /\ Return("tail")
    /\ UNCHANGED <<kind, useSASL, reqCaps, in, rd, line, job, capOwed, saslRes,
                   registered, srvVars>>

\* ... or its timeout: the server "probably doesn't implement CAP LS";
\* nil is returned without CAP END.
CapTimeout ==
    /\ pc = "capwait"
    /\ Return("tail")
    /\ UNCHANGED <<kind, useSASL, reqCaps, capChan, out, in, rd,
                   line, job, capOwed, saslRes, registered, srvVars>>

\* The rest of Connect() after negotiateCaps returned nil.
ConnectTail ==
    /\ pc = "tail"
    /\ out' = out \o <<"CAPLS302", "NICK", "USER">>
    /\ pc' = "ok"
    /\ UNCHANGED <<kind, useSASL, reqCaps, capChan, cbs, in, rd,
                   line, job, capOwed, saslRes, registered, srvVars>>

-----------------------------------------------------------------------------
(* readLoop reads the next server line and RunCallbacks copies the         *)
(* callbacks registered for its code and starts one goroutine each, then  *)
(* waits for all of them (CallbackTimeout is 0 after IRC()).  The built-in *)
(* 001 callback of setupCallbacks sets fullyConnected.                     *)
ReadLine ==
    /\ rd = "idle" /\ in # <<>>
    /\ LET l == Head(in)
           S == {n \in cbs : CbCode(n) = LineCode(l)}
       IN /\ in' = Tail(in) /\ line' = l
          /\ job' = [n \in CbNames |-> IF n \in S THEN "run" ELSE "none"]
          /\ rd' = IF S = {} THEN "idle" ELSE "busy"
          /\ registered' = (registered \/ l = "001")
    /\ UNCHANGED <<kind, useSASL, pc, reqCaps, capChan, cbs, out,
                   capOwed, saslRes, srvVars>>

\* The join loop of RunCallbacks: every goroutine has finished.
JoinDone ==
    /\ rd = "busy" /\ job = NoJobs
    /\ rd' = "idle"
    /\ UNCHANGED <<kind, useSASL, pc, reqCaps, capChan, cbs, out, in,
                   line, job, capOwed, saslRes, registered, srvVars>>

cbVars == <<kind, useSASL, pc, reqCaps, cbs, in, rd, line,
            registered, srvVars>>

\* Mutant: the LS branch's send loop runs i <= missing_caps times.
CapCallbackLoopOffByOne ==
    /\ job["CAP"] = "run"
    /\ LET listed == line = "LS+" /\ reqCaps = 1
           owed   == CASE line \in {"LS+", "LS-"} -> (IF listed THEN 0 ELSE reqCaps) + 1
                       [] line \in {"ACK", "NAK"} -> 1
       IN /\ out' = IF listed THEN Append(out, "REQ") ELSE out
          /\ capOwed' = owed
          /\ job' = [job EXCEPT !["CAP"] = IF owed > 0 THEN "owe" ELSE "none"]
    /\ UNCHANGED <<capChan, saslRes, cbVars>>

\* Mutant: missing_caps is not decremented for a listed capability.
CapCallbackNoDecrement ==
    /\ job["CAP"] = "run"
    /\ LET listed == line = "LS+" /\ reqCaps = 1
           owed   == CASE line \in {"LS+", "LS-"} -> reqCaps
                       [] line \in {"ACK", "NAK"} -> 1
       IN /\ out' = IF listed THEN Append(out, "REQ") ELSE out
          /\ capOwed' = owed
          /\ job' = [job EXCEPT !["CAP"] = IF owed > 0 THEN "owe" ELSE "none"]
    /\ UNCHANGED <<capChan, saslRes, cbVars>>

(* negotiateCaps' CAP callback.  LS: CAP REQ for each requested capability *)
(* listed, and one cap_chan send for each one missing.  ACK or NAK: one    *)
(* cap_chan send per capability named (one here).                          *)
CapCallback ==
    /\ job["CAP"] = "run"
    /\ LET listed == line = "LS+" /\ reqCaps = 1
           owed   == CASE line \in {"LS+", "LS-"} -> IF listed THEN 0 ELSE reqCaps
                       [] line \in {"ACK", "NAK"} -> 1
       IN /\ out' = IF listed THEN Append(out, "REQ") ELSE out
          /\ capOwed' = owed
          /\ job' = [job EXCEPT !["CAP"] = IF owed > 0 THEN "owe" ELSE "none"]
    /\ UNCHANGED <<capChan, saslRes, cbVars>>

\* cap_chan <- true: blocks while the buffer of len(RequestCaps) is full.
CapSend ==
    /\ job["CAP"] = "owe" /\ capChan < reqCaps
    /\ capChan' = capChan + 1 /\ capOwed' = capOwed - 1
    /\ job' = [job EXCEPT !["CAP"] = IF capOwed = 1 THEN "none" ELSE "owe"]
    /\ UNCHANGED <<out, saslRes, cbVars>>

(* The SASL callbacks: ACK -> AUTHENTICATE <mech>; AUTHENTICATE + -> the   *)
(* credentials; other lines of these codes are ignored.                    *)
SaslCallback(n) ==
    /\ n \in {"SASL_CAP", "SASL_AUTH"} /\ job[n] = "run"
    /\ out' = CASE n = "SASL_CAP" /\ line = "ACK"    -> Append(out, "MECH")
                [] n = "SASL_AUTH" /\ line = "AUTH+" -> Append(out, "CRED")
                [] OTHER                             -> out
    /\ job' = [job EXCEPT ![n] = "none"]
    /\ UNCHANGED <<capChan, capOwed, saslRes, cbVars>>

\* 903 / 904: saslResChan <- result; unbuffered, so the goroutine waits for
\* negotiateCaps to receive it.
SaslResult(n) ==
    /\ n \in {"SASL_903", "SASL_904"} /\ job[n] = "run"
    /\ saslRes' = IF n = "SASL_903" THEN "ok" ELSE "fail"
    /\ job' = [job EXCEPT ![n] = "send"]
    /\ UNCHANGED <<out, capChan, capOwed, cbVars>>

-----------------------------------------------------------------------------
(* The server takes the client's lines in order.  A CAP LS (either form)   *)
(* from a CAP-capable server suspends registration until CAP END (IRCv3); *)
(* a legacy server ignores CAP.  The credentials are accepted or not.      *)
Reply(l) == in' = Append(in, l)

ServerRecv ==
    /\ out # <<>>
    /\ LET l == Head(out) IN
         \E ok \in BOOLEAN :
           /\ out' = Tail(out)
           /\ suspended' = /\ suspended \/ (l \in {"CAPLS", "CAPLS302"} /\ kind # "legacy")
                           /\ l # "END"
           /\ gotNick' = (gotNick \/ l = "NICK") /\ gotUser' = (gotUser \/ l = "USER")
           /\ authed' = (authed \/ (l = "CRED" /\ ok))
           /\ CASE kind = "legacy" \/ l \in {"END", "NICK", "USER"} -> UNCHANGED in
                [] l \in {"CAPLS", "CAPLS302"} -> Reply(IF kind = "capsasl" THEN "LS+" ELSE "LS-")
                [] l = "REQ"  -> Reply(IF kind = "capsasl" THEN "ACK" ELSE "NAK")
                [] l = "MECH" -> Reply("AUTH+")
                [] l = "CRED" -> Reply(IF ok THEN "903" ELSE "904")
    /\ UNCHANGED <<kind, useSASL, pc, reqCaps, capChan, cbs, rd, line,
                   job, capOwed, saslRes, registered, welcomed>>

\* NICK and USER received and no negotiation in progress: RPL_WELCOME.
ServerWelcome ==
    /\ gotNick /\ gotUser /\ ~suspended /\ ~welcomed
    /\ welcomed' = TRUE /\ Reply("001")
    /\ UNCHANGED <<kind, useSASL, pc, reqCaps, capChan, cbs, out, rd,
                   line, job, capOwed, saslRes, registered, suspended, gotNick,
                   gotUser, authed>>

-----------------------------------------------------------------------------
Connect ==
    \/ NegotiateStart \/ SaslRecv \/ SaslTimeout \/ CapRecv \/ CapTimeout
    \/ ConnectTail

Reader ==
    \/ ReadLine \/ JoinDone \/ CapCallback \/ CapSend
    \/ \E n \in CbNames : SaslCallback(n) \/ SaslResult(n)

Server == ServerRecv \/ ServerWelcome

Next == Connect \/ Reader \/ Server

(* Every goroutine that can step does, and the 15 s timers fire while      *)
(* their select still waits; the server answers every line.               *)
Fairness ==
    /\ WF_vars(Connect) /\ WF_vars(ReadLine) /\ WF_vars(JoinDone)
    /\ WF_vars(CapCallback) /\ WF_vars(CapSend)
    /\ \A n \in CbNames : WF_vars(SaslCallback(n)) /\ WF_vars(SaslResult(n))
    /\ WF_vars(Server)

Spec == Init /\ [][Next]_vars /\ Fairness

-----------------------------------------------------------------------------
TypeOK ==
    /\ kind \in ServerKinds /\ useSASL \in BOOLEAN
    /\ pc \in {"start", "saslwait", "capwait", "tail", "ok", "err"}
    /\ reqCaps \in Nat
    /\ capChan \in 0..reqCaps
    /\ cbs \subseteq CbNames
    /\ rd \in {"idle", "busy"} /\ job \in [CbNames -> {"none", "run", "owe", "send"}]
    /\ capOwed \in 0..1 /\ saslRes \in {"none", "ok", "fail"}
    /\ {registered, suspended, gotNick, gotUser, welcomed, authed} \subseteq BOOLEAN

(* Connect() returns (spec 4.3: the handshake degrades gracefully when the *)
(* server does not answer): whatever the server is, negotiateCaps leaves   *)
(* every wait through an answer or its 15 s timeout.                       *)
NegotiationReturns == <>(pc \in {"ok", "err"})

(* With UseSASL the client registers only as an authenticated user (spec   *)
(* 4.3: a rejection or a timeout fails the whole handshake): when Connect()*)
(* has sent NICK and USER, the server has accepted the credentials.        *)
AuthBeforeRegistration == (useSASL /\ pc = "ok") => authed

(* The CAP callback never waits on cap_chan (its capacity is the number  *)
(* of requested capabilities so the sends for one LS and the ACK/NAKs     *)
(* always fit): a full cap_chan would hold the reader inside RunCallbacks. *)
CapChanNeverBlocks == job["CAP"] = "owe" => capChan < reqCaps

(* Registration completes (spec 4.3: NICK/USER are sent once per attempt  *)
(* and the engine ends with CAP END once the capabilities are answered):   *)
(* a Connect() that returned nil leads to the server's 001 being handled.  *)
RegistrationCompletes == (pc = "ok") ~> registered

====
