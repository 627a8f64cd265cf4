----------------------------- MODULE MCAcClient -----------------------------
(***************************************************************************)
(* AcClient for TLC.                                                       *)
(***************************************************************************)
EXTENDS AcClient, TLC

\* Enough to reach every error path of ac/client.c; UdpSocket is checked with
\* the others on its own.
SomeFail == {"malloc", "sendto", "closesocket"}

Symmetry ==
    Permutations(Sockets) \cup Permutations(Handles) \cup Permutations(Clients)
=============================================================================
