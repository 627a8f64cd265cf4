--------------------------- MODULE SharedWinsock ----------------------------
(***************************************************************************)
(* What wsa_client.c makes of Winsock for its users, whatever fails in     *)
(* between: the first user to come starts it, and the first to leave takes *)
(* it down for all of them.  A user that comes while others are left       *)
(* behind does not bring it back, and none of those can leave.  The        *)
(* abstract counterpart of UdpSocket.tla, which is checked against it.     *)
(***************************************************************************)
CONSTANT Users

VARIABLES
    holders,  \* the users that have come and not left
    up        \* whether Winsock is initialised

winsockVars == <<holders, up>>

Init ==
    /\ holders = {}
    /\ up = FALSE

Acquire(u) ==
    /\ u \notin holders
    /\ holders' = holders \cup {u}
    /\ up' = (up \/ holders = {})

Release(u) ==
    /\ up
    /\ u \in holders
    /\ holders' = holders \ {u}
    /\ up' = FALSE

Next == \E u \in Users : Acquire(u) \/ Release(u)

Spec == Init /\ [][Next]_winsockVars
=============================================================================
