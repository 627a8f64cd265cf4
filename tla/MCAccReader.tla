---------------------------- MODULE MCAccReader -----------------------------
(***************************************************************************)
(* AccReader for TLC.                                                      *)
(***************************************************************************)
EXTENDS AccReader

\* The types acc_client_receive has a case for.
AllTypes == DOMAIN Layout
=============================================================================
