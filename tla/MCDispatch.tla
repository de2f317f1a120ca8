----------------------------- MODULE MCDispatch -----------------------------
(* Constants for TLC.  The application registers for PRIVMSG, for the     *)
(* CTCP_VERSION code the built-in callback also uses, and for "*".  The    *)
(* server sends a PRIVMSG whose text holds " :", a CTCP VERSION request, a *)
(* CTCP DCC offer (no built-in sub-code), a tagged NICK whose tag value    *)
(* holds a space and a ";", and an ERROR; and a CTCP line without its      *)
(* closing \x01.  No tag value holds a backslash and no line is shorter   *)
(* than five characters: parseToEvent mishandles both (README, Parser).   *)
EXTENDS Dispatch

MCRegCodes == {"PRIVMSG", "CTCP_VERSION", "*"}

Msg(tags, nick, host, cmd, params, trailing) ==
    [tags |-> tags, nick |-> nick, user |-> IF nick = "" THEN "" ELSE "u", host |-> host,
     command |-> cmd, params |-> params, trailing |-> trailing]

MCSent == {Msg(<<>>, "n", "h", "PRIVMSG", <<"#c">>, <<"hi :x">>),
           Msg(<<>>, "n", "h", "PRIVMSG", <<"me">>, <<"^VERSION^">>),
           Msg(<<>>, "n", "h", "PRIVMSG", <<"me">>, <<"^DCC CHAT chat 1 2^">>),
           Msg(<<<<"k", "a b;c">>, <<"t", "">>>>, "", "srv", "NICK", <<>>, <<"new">>),
           Msg(<<>>, "", "", "ERROR", <<>>, <<"bye">>)}

MCInputs == {Wire(m) : m \in MCSent} \cup {":n!u@h PRIVMSG me :^VERSION\r\n"}
====
