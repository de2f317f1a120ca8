--------------------------------- MODULE DCC ---------------------------------
(***************************************************************************)
(* The DCC CHAT manager of go-ircevo (src/unnamed/part_000, irc_dcc.go).   *)
(* A chat is created by InitiateDCCChat's accept goroutine and stored in   *)
(* the manager's map under the peer's nick, overwriting any chat already  *)
(* there.  handleDCCChatConnection starts a reader and a writer goroutine, *)
(* waits for the first of them to end, then deletes the map entry of the   *)
(* chat's nick and closes the socket.  The application sends, receives and *)
(* closes through the map, under the manager's mutex.                      *)
(*                                                                         *)
(* Chats are numbered 1..MaxChats in the order they are created.  Each     *)
(* chat's Incoming and Outgoing channels are sequences of capacity ChanCap *)
(* with a closed flag.  Closing a closed channel or sending on one sets    *)
(* panicked; nothing moves after it (the process dies).                    *)
(***************************************************************************)
EXTENDS Integers, Sequences

CONSTANTS
    Nicks,       \* targets of InitiateDCCChat
    Msgs,        \* lines the application and the peers send
    MaxChats,    \* bound on the chats created
    MaxLines,    \* bound on the lines a peer sends on one chat
    MaxCalls,    \* bound on the application's calls
    ChanCap      \* capacity of Incoming and Outgoing (100 in the code)

Chats == 1..MaxChats
NoChat == 0

VARIABLES
    chats,       \* DCCManager.chats: nick -> chat, NoChat for no entry
    made,        \* number of chats created (InitiateDCCChat calls)
    target,      \* chat -> the nick it was initiated to
    hdl,         \* accept/handler goroutine: "none", "listen", "wait", "done"
    rdr,         \* reader goroutine: "none", "scan", "send", "done"
    wtr,         \* writer goroutine: "none", "run", "done"
    inq, inClosed,    \* chat.Incoming
    outq, outClosed,  \* chat.Outgoing
    sock,        \* our side of chat.Conn: "open", "expired" (deadline), "closed"
    peer,        \* the remote side: "open", "closed"
    sent,        \* lines the peer has sent on each chat
    app,         \* application call between lookup and channel operation
    calls,       \* application calls so far
    panicked

vars == <<chats, made, target, hdl, rdr, wtr, inq, inClosed, outq, outClosed,
          sock, peer, sent, app, calls, panicked>>

Idle == [op |-> "idle", chat |-> NoChat, msg |-> "none"]

Init ==
    /\ chats = [n \in Nicks |-> NoChat]
    /\ made = 0
    /\ target = [c \in Chats |-> CHOOSE n \in Nicks : TRUE]
    /\ hdl = [c \in Chats |-> "none"]
    /\ rdr = [c \in Chats |-> "none"]
    /\ wtr = [c \in Chats |-> "none"]
    /\ inq = [c \in Chats |-> <<>>] /\ inClosed = [c \in Chats |-> FALSE]
    /\ outq = [c \in Chats |-> <<>>] /\ outClosed = [c \in Chats |-> FALSE]
    /\ sock = [c \in Chats |-> "open"] /\ peer = [c \in Chats |-> "open"]
    /\ sent = [c \in Chats |-> 0]
    /\ app = Idle /\ calls = 0 /\ panicked = FALSE

Live == ~panicked

\* InitiateDCCChat: listen, send the offer over IRC, start the accept goroutine.
InitiateDCCChat(n) ==
    /\ made < MaxChats /\ calls < MaxCalls /\ app = Idle
    /\ made' = made + 1 /\ calls' = calls + 1
    /\ target' = [target EXCEPT ![made + 1] = n]
    /\ hdl' = [hdl EXCEPT ![made + 1] = "listen"]
    /\ UNCHANGED <<chats, rdr, wtr, inq, inClosed, outq, outClosed, sock, peer, sent, app, panicked>>

\* The accept goroutine: the peer connects, the chat replaces the map entry
\* of its nick, and handleDCCChatConnection starts the reader and writer.
Accept(c) ==
    /\ hdl[c] = "listen"
    /\ chats' = [chats EXCEPT ![target[c]] = c]
    /\ hdl' = [hdl EXCEPT ![c] = "wait"]
    /\ rdr' = [rdr EXCEPT ![c] = "scan"]
    /\ wtr' = [wtr EXCEPT ![c] = "run"]
    /\ UNCHANGED <<made, target, inq, inClosed, outq, outClosed, sock, peer, sent, app, calls, panicked>>

\* readDCCChat: scanner.Scan returns a line while the socket delivers one ...
ReadScan(c) ==
    /\ rdr[c] = "scan" /\ sock[c] = "open" /\ peer[c] = "open" /\ sent[c] < MaxLines
    /\ sent' = [sent EXCEPT ![c] = @ + 1]
    /\ rdr' = [rdr EXCEPT ![c] = "send"]
    /\ UNCHANGED <<chats, made, target, hdl, wtr, inq, inClosed, outq, outClosed, sock, peer, app, calls, panicked>>

\* ... and the line is sent on Incoming, which blocks while it is full ...
ReadSend(c) ==
    /\ rdr[c] = "send" /\ Len(inq[c]) < ChanCap
    /\ \E m \in Msgs : inq' = [inq EXCEPT ![c] = Append(@, m)]
    /\ rdr' = [rdr EXCEPT ![c] = "scan"]
    /\ UNCHANGED <<chats, made, target, hdl, wtr, inClosed, outq, outClosed, sock, peer, sent, app, calls, panicked>>

\* ... until the socket ends (peer gone, closed by us, or a deadline); then
\* close(chat.Incoming).
ReadEnd(c) ==
    /\ rdr[c] = "scan" /\ (sock[c] # "open" \/ peer[c] = "closed")
    /\ inClosed' = [inClosed EXCEPT ![c] = TRUE]
    /\ rdr' = [rdr EXCEPT ![c] = "done"]
    /\ UNCHANGED <<chats, made, target, hdl, wtr, inq, outq, outClosed, sock, peer, sent, app, calls, panicked>>

\* Closing a channel: a panic if it is closed already.
CloseChan(closed, c) ==
    IF closed[c] THEN panicked' = TRUE /\ UNCHANGED closed
    ELSE /\ closed' = [closed EXCEPT ![c] = TRUE] /\ UNCHANGED panicked

\* writeDCCChat: for msg := range chat.Outgoing writes every line; a failed
\* write breaks the loop.  After the loop: close(chat.Outgoing).
WriteLine(c) ==
    /\ wtr[c] = "run" /\ outq[c] # <<>>
    /\ outq' = [outq EXCEPT ![c] = Tail(@)]
    /\ \/ /\ sock[c] = "open"
          /\ UNCHANGED <<wtr, outClosed, panicked>>
       \/ /\ sock[c] # "open" \/ peer[c] = "closed"
          /\ wtr' = [wtr EXCEPT ![c] = "done"]
          /\ CloseChan(outClosed, c)
    /\ UNCHANGED <<chats, made, target, hdl, rdr, inq, inClosed, sock, peer, sent, app, calls>>

WriteEnd(c) ==
    /\ wtr[c] = "run" /\ outq[c] = <<>> /\ outClosed[c]
    /\ wtr' = [wtr EXCEPT ![c] = "done"]
    /\ CloseChan(outClosed, c)
    /\ UNCHANGED <<chats, made, target, hdl, rdr, inq, inClosed, outq, sock, peer, sent, app, calls>>

\* handleDCCChatConnection: the first of reader and writer to end wakes the
\* select; the deferred functions delete chats[chat.Nick] and close Conn.
HandlerReturn(c) ==
    /\ hdl[c] = "wait" /\ (rdr[c] = "done" \/ wtr[c] = "done")
    /\ chats' = [chats EXCEPT ![target[c]] = NoChat]
    /\ sock' = [sock EXCEPT ![c] = "closed"]
    /\ hdl' = [hdl EXCEPT ![c] = "done"]
    /\ UNCHANGED <<made, target, rdr, wtr, inq, inClosed, outq, outClosed, peer, sent, app, calls, panicked>>

PeerClose(c) ==
    /\ hdl[c] \in {"wait", "done"} /\ peer[c] = "open"
    /\ peer' = [peer EXCEPT ![c] = "closed"]
    /\ UNCHANGED <<chats, made, target, hdl, rdr, wtr, inq, inClosed, outq, outClosed, sock, sent, app, calls, panicked>>

-----------------------------------------------------------------------------
(* The application: one goroutine calling the exported functions.  Send   *)
(* and Get look the chat up under the mutex, release it, and then use the *)
(* channel, so the two halves are separate steps.                         *)

Call(op, c, m) ==
    /\ app' = [op |-> op, chat |-> c, msg |-> m]
    /\ calls' = calls + 1

\* SendDCCMessage: the lookup; no entry returns an error.
SendLookup(n, m) ==
    /\ app = Idle /\ calls < MaxCalls /\ chats[n] # NoChat
    /\ Call("send", chats[n], m)
    /\ UNCHANGED <<chats, made, target, hdl, rdr, wtr, inq, inClosed, outq, outClosed, sock, peer, sent, panicked>>

\* select { case chat.Outgoing <- message: ... default: "channel full" }:
\* a send on a closed channel panics even inside a select.
SendChan ==
    /\ app.op = "send"
    /\ LET c == app.chat IN
       \/ /\ outClosed[c] /\ panicked' = TRUE /\ UNCHANGED outq
       \/ /\ ~outClosed[c] /\ Len(outq[c]) < ChanCap
          /\ outq' = [outq EXCEPT ![c] = Append(@, app.msg)] /\ UNCHANGED panicked
       \/ /\ ~outClosed[c] /\ Len(outq[c]) = ChanCap /\ UNCHANGED <<outq, panicked>>
    /\ app' = Idle
    /\ UNCHANGED <<chats, made, target, hdl, rdr, wtr, inq, inClosed, outClosed, sock, peer, sent, calls>>

\* GetDCCMessage: the lookup, then a receive with a default: a line, "closed"
\* for a closed and drained Incoming, or "no message available".
GetLookup(n) ==
    /\ app = Idle /\ calls < MaxCalls /\ chats[n] # NoChat
    /\ Call("get", chats[n], "none")
    /\ UNCHANGED <<chats, made, target, hdl, rdr, wtr, inq, inClosed, outq, outClosed, sock, peer, sent, panicked>>

GetChan ==
    /\ app.op = "get"
    /\ inq' = [inq EXCEPT ![app.chat] = IF @ = <<>> THEN @ ELSE Tail(@)]
    /\ app' = Idle
    /\ UNCHANGED <<chats, made, target, hdl, rdr, wtr, inClosed, outq, outClosed, sock, peer, sent, calls, panicked>>

\* CloseDCCChat, all under the mutex: close(chat.Outgoing), Conn.Close(),
\* delete the entry.
CloseDCCChat(n) ==
    /\ app = Idle /\ calls < MaxCalls /\ chats[n] # NoChat
    /\ LET c == chats[n] IN
       /\ CloseChan(outClosed, c)
       /\ sock' = [sock EXCEPT ![c] = "closed"]
    /\ chats' = [chats EXCEPT ![n] = NoChat]
    /\ calls' = calls + 1
    /\ UNCHANGED <<made, target, hdl, rdr, wtr, inq, inClosed, outq, peer, sent, app>>

\* SetDCCChatTimeout: a deadline on the socket of every chat in the map,
\* which passes (the timeout is a parameter; any later I/O may fail).
SetDCCChatTimeout ==
    /\ app = Idle /\ calls < MaxCalls
    /\ sock' = [c \in Chats |-> IF sock[c] = "open" /\ \E n \in Nicks : chats[n] = c
                                 THEN "expired" ELSE sock[c]]
    /\ calls' = calls + 1
    /\ UNCHANGED <<chats, made, target, hdl, rdr, wtr, inq, inClosed, outq, outClosed, peer, sent, app, panicked>>

Step ==
    \/ \E n \in Nicks : \/ InitiateDCCChat(n) \/ GetLookup(n) \/ CloseDCCChat(n)
                        \/ \E m \in Msgs : SendLookup(n, m)
    \/ SendChan \/ GetChan \/ SetDCCChatTimeout
    \/ \E c \in Chats : \/ Accept(c) \/ ReadScan(c) \/ ReadSend(c) \/ ReadEnd(c)
                        \/ WriteLine(c) \/ WriteEnd(c) \/ HandlerReturn(c) \/ PeerClose(c)

Next == Live /\ Step

Spec == Init /\ [][Next]_vars

-----------------------------------------------------------------------------
TypeOK ==
    /\ chats \in [Nicks -> Chats \cup {NoChat}] /\ made \in 0..MaxChats
    /\ hdl \in [Chats -> {"none", "listen", "wait", "done"}]
    /\ rdr \in [Chats -> {"none", "scan", "send", "done"}]
    /\ wtr \in [Chats -> {"none", "run", "done"}]
    /\ \A c \in Chats : Len(inq[c]) <= ChanCap /\ Len(outq[c]) <= ChanCap
    /\ sock \in [Chats -> {"open", "expired", "closed"}]

(* The manager never panics: CloseDCCChat closes Outgoing, and the writer *)
(* goroutine (writeDCCChat) closes it again after its range loop ends; a *)
(* SendDCCMessage after the writer closed Outgoing sends on a closed      *)
(* channel.                                                               *)
NoPanic == ~panicked

====
