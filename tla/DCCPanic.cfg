\* One target nick, two chats, channels of capacity 1.
CONSTANTS
    Nicks = {bob}
    Msgs = {hi}
    MaxChats = 2
    MaxLines = 1
    MaxCalls = 3
    ChanCap = 1
SPECIFICATION Spec
INVARIANT NoPanic
CHECK_DEADLOCK FALSE
