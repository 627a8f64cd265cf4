---------------------------- MODULE MCUdpSocket -----------------------------
(***************************************************************************)
(* UdpSocket for TLC: the sockets on their own, without a client.          *)
(***************************************************************************)
EXTENDS UdpSocket, TLC

\* Every call may fail but those that clean up.
CleanupReliable == SysCalls \ {"WSACleanup", "closesocket"}

\* Objects and handles are interchangeable.
Symmetry ==
    Permutations(Sockets) \cup Permutations(Handles)
=============================================================================
