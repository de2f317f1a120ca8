----------------------------- MODULE MCSession -----------------------------
(* Model-checking instance of Session: ERROR texts that match a permanent  *)
(* and a recoverable pattern (permanent wins), a server-limit text, a      *)
(* network text and an unknown text (Recoverable by default).              *)
EXTENDS Session

MCErrorTexts == {{"permanent", "recoverable"}, {"server"}, {"network"}, {}}

\* The same without the permanent text, for the questions about a Loop that
\* does not halt.
MCTransientTexts == {{"server"}, {"network"}, {}}

====
