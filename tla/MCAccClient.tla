---------------------------- MODULE MCAccClient -----------------------------
(***************************************************************************)
(* AccClient for TLC.                                                      *)
(***************************************************************************)
EXTENDS AccClient, TLC

SomeFail == {"malloc", "sendto", "closesocket"}

\* The lengths of a request's strings: none, some, one that needs the second
\* byte of its length, the largest in a datagram with it alone, one whose
\* length does not fit its 16 bits, and one whose total an int32_t cuts.
Lengths == {0, 300, 65500, 65539, IntRange + 300}

CarIndexes == {-1, 0, 65535, 65536}

AllRequests ==
    [type : {"REGISTER_COMMAND_APPLICATION"}, display_name : {0, 65539},
     connection_password : {300}, command_password : {0, IntRange + 300}]
    \cup [type : {"UNREGISTER_COMMAND_APPLICATION", "REQUEST_ENTRY_LIST",
                   "REQUEST_TRACK_DATA"}]
    \cup [type : {"CHANGE_HUD_PAGE"}, hud_page : Lengths]
    \cup [type : {"CHANGE_FOCUS"}, car_index : CarIndexes, camera_set : {0, 300},
          camera : {0, 300}]
    \cup [type : {"INSTANT_REPLAY_REQUEST"}, initial_camera_set : {0, 65500},
          initial_camera : {300}]

Symmetry ==
    Permutations(Sockets) \cup Permutations(Handles) \cup Permutations(Clients)
=============================================================================
