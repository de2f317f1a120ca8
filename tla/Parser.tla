------------------------------- MODULE Parser -------------------------------
(***************************************************************************)
(* The wire parser of go-ircevo (src/irc.go 124-186): parseToEvent and     *)
(* unescapeTagValue, as operators over TLA+ strings.  The Go helpers they  *)
(* call (strings.Index, TrimSuffix, Replace, Split, SplitN, ToUpper) are   *)
(* written out below, with 1-based positions and 0 for Go's -1.            *)
(*                                                                         *)
(* TLA+ strings have no \x01: the models write the CTCP delimiter as "^".  *)
(***************************************************************************)
EXTENDS Integers, Sequences, TLC

CtcpMark == "^"

Char(s, i) == SubSeq(s, i, i)
Rest(s, i) == SubSeq(s, i, Len(s))

HasPrefix(s, p) == Len(s) >= Len(p) /\ SubSeq(s, 1, Len(p)) = p

TrimSuffix(s, suf) ==
    IF Len(s) >= Len(suf) /\ Rest(s, Len(s) - Len(suf) + 1) = suf
      THEN SubSeq(s, 1, Len(s) - Len(suf)) ELSE s

\* strings.Index: the first position at or after i where sub starts, else 0.
RECURSIVE IndexFrom(_, _, _)
IndexFrom(s, sub, i) ==
    IF i + Len(sub) - 1 > Len(s) THEN 0
    ELSE IF SubSeq(s, i, i + Len(sub) - 1) = sub THEN i
    ELSE IndexFrom(s, sub, i + 1)

Index(s, sub) == IndexFrom(s, sub, 1)

\* strings.LastIndex.
LastIndex(s, sub) ==
    LET hits == {i \in 1..Len(s) : IndexFrom(s, sub, i) = i}
    IN IF hits = {} THEN 0 ELSE CHOOSE i \in hits : \A j \in hits : j <= i

\* strings.Replace(s, old, new, -1): left to right, without overlaps.
RECURSIVE Replace(_, _, _)
Replace(s, old, new) ==
    LET i == Index(s, old)
    IN IF i = 0 THEN s
       ELSE SubSeq(s, 1, i - 1) \o new \o Replace(Rest(s, i + Len(old)), old, new)

\* strings.Split(s, sep).
RECURSIVE Split(_, _)
Split(s, sep) ==
    LET i == Index(s, sep)
    IN IF i = 0 THEN <<s>>
       ELSE <<SubSeq(s, 1, i - 1)>> \o Split(Rest(s, i + Len(sep)), sep)

\* strings.SplitN(s, sep, 2).
SplitTwo(s, sep) ==
    LET i == Index(s, sep)
    IN IF i = 0 THEN <<s>> ELSE <<SubSeq(s, 1, i - 1), Rest(s, i + Len(sep))>>

Lower == "abcdefghijklmnopqrstuvwxyz"
Upper == "ABCDEFGHIJKLMNOPQRSTUVWXYZ"

RECURSIVE ToUpper(_)
ToUpper(s) ==
    IF s = "" THEN ""
    ELSE LET k == Index(Lower, Char(s, 1))
         IN (IF k = 0 THEN Char(s, 1) ELSE Char(Upper, k)) \o ToUpper(Rest(s, 2))

-----------------------------------------------------------------------------
(* unescapeTagValue: five replacements, one after the other, in this order. *)
UnescapeTagValue(v) ==
    LET a == Replace(v, "\\:", ";")
        b == Replace(a, "\\s", " ")
        c == Replace(b, "\\\\", "\\")
        d == Replace(c, "\\r", "\r")
    IN Replace(d, "\\n", "\n")

\* The tag map: every "key" or "key=value" of the tag segment, later keys
\* overwriting earlier ones.
RECURSIVE TagMap(_, _)
TagMap(items, acc) ==
    IF items = <<>> THEN acc
    ELSE LET parts == SplitTwo(Head(items), "=")
             val == IF Len(parts) = 1 THEN "" ELSE UnescapeTagValue(parts[2])
         IN TagMap(Tail(items), (parts[1] :> val) @@ acc)

NoTags == <<>>

Malformed == [result |-> "error"]

\* msg[0] of an empty string: a run-time panic of the reader goroutine.
IndexPanic == [result |-> "panic"]

\* The source: nick!user@host when both delimiters occur in that order.
WithSource(ev, src) ==
    LET i == Index(src, "!")
        j == Index(src, "@")
    IN IF i > 0 /\ j > 0 /\ i < j
         THEN [ev EXCEPT !.source = src, !.nick = SubSeq(src, 1, i - 1),
                         !.user = SubSeq(src, i + 1, j - 1), !.host = Rest(src, j + 1)]
         ELSE [ev EXCEPT !.source = src]

\* Mutant: the trailing argument is split off at the last " :".
WithCommandLastColon(ev, msg) ==
    LET k == LastIndex(msg, " :")
        split == IF k = 0 THEN <<msg>> ELSE <<SubSeq(msg, 1, k - 1), Rest(msg, k + 2)>>
        args == Split(split[1], " ")
    IN [ev EXCEPT !.result = "event", !.code = ToUpper(args[1]),
                  !.args = IF Len(split) > 1 THEN Tail(args) \o <<split[2]>> ELSE Tail(args)]

\* The command and its arguments, after the tags and the source are gone.
WithCommand(ev, msg) ==
    LET split == SplitTwo(msg, " :")
        args == Split(split[1], " ")
    IN [ev EXCEPT !.result = "event", !.code = ToUpper(args[1]),
                  !.args = IF Len(split) > 1 THEN Tail(args) \o <<split[2]>> ELSE Tail(args)]

Blank == [result |-> "event", code |-> "", args |-> <<>>, tags |-> NoTags,
          source |-> "", nick |-> "", user |-> "", host |-> ""]

ParseSource(ev, msg) ==
    IF msg = "" THEN IndexPanic
    ELSE IF Char(msg, 1) # ":" THEN WithCommand(ev, msg)
    ELSE LET i == Index(msg, " ")
         IN IF i = 0 THEN Malformed
            ELSE WithCommand(WithSource(ev, SubSeq(msg, 2, i - 1)), Rest(msg, i + 1))

ParseToEvent(raw) ==
    LET msg == TrimSuffix(TrimSuffix(raw, "\n"), "\r")
        i == Index(msg, " ")
    IN IF Len(msg) < 5 THEN Malformed
       ELSE IF Char(msg, 1) # "@" THEN ParseSource(Blank, msg)
       ELSE IF i = 0 THEN Malformed
       ELSE ParseSource([Blank EXCEPT !.tags = TagMap(Split(SubSeq(msg, 2, i - 1), ";"), NoTags)],
                        Rest(msg, i + 1))

\* Event.Message: the last argument, or "".
Message(ev) == IF ev.args = <<>> THEN "" ELSE ev.args[Len(ev.args)]

-----------------------------------------------------------------------------
(* Reference: the wire format of a message (RFC 1459 with IRCv3 tags) and *)
(* the code spec 4.7 gives it, written from the format, not the parser.   *)
(* A message m has tags (a sequence of <<key, value>>, "" for a key       *)
(* without "="), a source nick!user@host (nick "" for a server name in    *)
(* host, host "" for none), a command, middle params and trailing (a      *)
(* sequence of at most one string).                                       *)

\* IRCv3 tag value escaping, one character at a time.
RECURSIVE Escape(_)
Escape(v) ==
    IF v = "" THEN ""
    ELSE LET c == Char(v, 1)
             x == CASE c = ";" -> "\\:" [] c = " " -> "\\s" [] c = "\\" -> "\\\\"
                    [] c = "\r" -> "\\r" [] c = "\n" -> "\\n" [] OTHER -> c
         IN x \o Escape(Rest(v, 2))

RECURSIVE Join(_, _)
Join(seq, sep) ==
    IF Len(seq) <= 1 THEN (IF seq = <<>> THEN "" ELSE Head(seq))
    ELSE Head(seq) \o sep \o Join(Tail(seq), sep)

TagItem(t) == IF t[2] = "" THEN t[1] ELSE t[1] \o "=" \o Escape(t[2])

Prefix(m) == IF m.nick = "" THEN m.host ELSE m.nick \o "!" \o m.user \o "@" \o m.host

Wire(m) ==
    (IF m.tags = <<>> THEN ""
     ELSE "@" \o Join([i \in DOMAIN m.tags |-> TagItem(m.tags[i])], ";") \o " ")
    \o (IF m.host = "" THEN "" ELSE ":" \o Prefix(m) \o " ")
    \o Join(<<m.command>> \o m.params, " ")
    \o (IF m.trailing = <<>> THEN "" ELSE " :" \o Head(m.trailing))
    \o "\r\n"

TagsSent(m) == [k \in {m.tags[i][1] : i \in DOMAIN m.tags} |->
                  (CHOOSE t \in {m.tags[i] : i \in DOMAIN m.tags} : t[1] = k)[2]]

KnownCtcp == {"VERSION", "TIME", "PING", "USERINFO", "CLIENTINFO", "ACTION"}

\* A PRIVMSG whose text is framed by \x01 gets CTCP_<verb> for a known verb,
\* the generic CTCP for any other.
Meaning(m) ==
    LET args == m.params \o m.trailing
        text == IF args = <<>> THEN "" ELSE args[Len(args)]
        inner == SubSeq(text, 2, Len(text) - 1)
        verb == IF Index(inner, " ") = 0 THEN inner ELSE SubSeq(inner, 1, Index(inner, " ") - 1)
    IN IF m.command = "PRIVMSG" /\ Len(text) >= 2 /\ Char(text, 1) = CtcpMark
          /\ Char(text, Len(text)) = CtcpMark
         THEN IF verb \in KnownCtcp THEN "CTCP_" \o verb ELSE "CTCP"
         ELSE m.command

====
