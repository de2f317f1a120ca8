-------------------------- MODULE CallbackRegistry --------------------------
(***************************************************************************)
(* What event dispatch of go-ircevo promises (spec 3, "Handler            *)
(* registration", and 4.7), without goroutines, channels or the join map:  *)
(* a registry of (code, id, callback) triples with ids handed out in       *)
(* increasing order, and a fan-out that starts every callback of the       *)
(* event's code and of "*" as it is at that moment, and returns only when  *)
(* none of them is still running, or, with a timeout configured, once it  *)
(* has expired.  Registry changes never wait for a fan-out.  A CTCP line   *)
(* without its closing \x01 is dispatched to nobody.                       *)
(*                                                                         *)
(* Dispatch.tla implements this module (see RefinesRegistry there).        *)
(***************************************************************************)
EXTENDS Integers, FiniteSets

CONSTANTS
    Codes,      \* event codes, "*" included
    Bodies,     \* "quick" (returns) or "blocking" (never returns)
    Timeout     \* a per-dispatch timeout is configured

VARIABLES
    handlers,   \* set of <<code, id, body>>
    nextId,     \* the id the next Register returns
    dispatched, \* number of fan-outs so far
    busy,       \* the newest fan-out has not returned
    running,    \* invocations <<fan-out, id, body>> whose callback has not returned
    expired     \* the newest fan-out's timeout has elapsed

avars == <<handlers, nextId, dispatched, busy, running, expired>>

Init ==
    /\ nextId \in Nat
    /\ \A t \in handlers : t[1] \in Codes /\ t[2] \in 0..nextId - 1 /\ t[3] \in Bodies
    /\ \A t, u \in handlers : t[2] = u[2] => t = u
    /\ dispatched = 0 /\ ~busy /\ running = {} /\ ~expired

fanVars == <<dispatched, busy, running, expired>>

Register(c, h) ==
    /\ handlers' = handlers \cup {<<c, nextId, h>>}
    /\ nextId' = nextId + 1
    /\ UNCHANGED fanVars

Unregister(c, i) ==
    /\ \E t \in handlers : t[1] = c /\ t[2] = i /\ handlers' = handlers \ {t}
    /\ UNCHANGED <<nextId, fanVars>>

Clear(c) ==
    /\ handlers' = {t \in handlers : t[1] # c}
    /\ UNCHANGED <<nextId, fanVars>>

Replace(c, i, h) ==
    /\ \E t \in handlers : t[1] = c /\ t[2] = i
                           /\ handlers' = (handlers \ {t}) \cup {<<c, i, h>>}
    /\ UNCHANGED <<nextId, fanVars>>

\* The callbacks a fan-out for code c starts.
Matching(c) == {t \in handlers : t[1] \in {c, "*"}}

FanOut(c) ==
    /\ ~busy
    /\ LET started == {<<dispatched + 1, t[2], t[3]>> : t \in Matching(c)}
       IN /\ running' = running \cup started
          /\ busy' = (started # {})
    /\ dispatched' = dispatched + 1
    /\ expired' = FALSE
    /\ UNCHANGED <<handlers, nextId>>

Drop ==
    /\ ~busy
    /\ dispatched' = dispatched + 1
    /\ expired' = FALSE
    /\ UNCHANGED <<handlers, nextId, busy, running>>

\* A quick callback returns, whether or not its fan-out still waits for it.
Finish(t) ==
    /\ t \in running /\ t[3] = "quick"
    /\ running' = running \ {t}
    /\ UNCHANGED <<handlers, nextId, dispatched, busy, expired>>

Expire ==
    /\ Timeout /\ busy /\ ~expired
    /\ expired' = TRUE
    /\ UNCHANGED <<handlers, nextId, dispatched, busy, running>>

\* The fan-out returns: all its callbacks have returned, or it timed out.
\* Returning ends the timeout's context as well.
Release ==
    /\ busy
    /\ expired \/ \A t \in running : t[1] # dispatched
    /\ busy' = FALSE
    /\ expired' = (expired \/ Timeout)
    /\ UNCHANGED <<handlers, nextId, dispatched, running>>

Next ==
    \/ \E c \in Codes, h \in Bodies : Register(c, h)
    \/ \E t \in handlers : Unregister(t[1], t[2]) \/ \E h \in Bodies : Replace(t[1], t[2], h)
    \/ \E c \in Codes : Clear(c) \/ FanOut(c)
    \/ Drop \/ Expire \/ Release
    \/ \E t \in running : Finish(t)

(* A quick callback eventually returns, the timer fires, and a fan-out     *)
(* that may return does.                                                   *)
Spec ==
    Init /\ [][Next]_avars
    /\ WF_avars(\E t \in running : Finish(t)) /\ WF_avars(Expire) /\ WF_avars(Release)

====
