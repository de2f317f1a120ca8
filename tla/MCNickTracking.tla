--------------------------- MODULE MCNickTracking ---------------------------
(* Model-checking instance of NickTracking: we register as "bob", which   *)
(* is already taken, so registration goes through the 433 retries; the    *)
(* application may ask for "alice" (taken), "carol" (erroneous) or "";    *)
(* other users may move to "dave".                                         *)
EXTENDS NickTracking

MCInitialNick == "bob"
MCRequests == {"alice", "carol", ""}
MCOthers == {"bob", "alice"}
MCOtherNicks == {"dave"}
MCErroneous == {"carol"}

(* Every rejection of a still-taken desired nick lengthens nickcurrent    *)
(* (modifyNick and the "Err" prefix work on nickcurrent), so the length   *)
(* of the nicks the client makes up is unbounded.  Exploration stops at   *)
(* nicks longer than MaxNickLen; registration needs at most |Others|+1    *)
(* characters beyond InitialNick, which stays inside this bound.          *)
MaxNickLen == 7
NickLenBound == Len(nickcurrent) <= MaxNickLen /\ Len(srvNick) <= MaxNickLen
====
