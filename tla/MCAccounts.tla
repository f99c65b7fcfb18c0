----------------------------- MODULE MCAccounts -----------------------------
(* One IT user and a free user name for TLC.  A browser where IT creates   *)
(* users, grants and resets; one where people log in and out and suspend   *)
(* and delete.  Outside IT the Credit department may delete users.         *)
EXTENDS Accounts, TLC

CONSTANTS a, b, it, free, dIT, dCredit

MCRights == {<<"ADMIN", "delete">>, <<"RESORTS_SETUP", "view">>,
             <<"RESORT_BOOKING", "view">>}
MCToggled == {<<"RESORT_BOOKING", "view">>}
MCSeededUsers ==
  it :> [dept |-> dIT, active |-> TRUE, mustChange |-> FALSE, attempts |-> 0,
         locked |-> FALSE, session |-> 0]
  @@ free :> Absent
MCSeededMatrix ==
  dIT :> {} @@ dCredit :> {<<"ADMIN", "delete">>, <<"RESORTS_SETUP", "view">>}
MCPeople == a :> {it} @@ b :> {it, free}
MCOps == a :> {"login", "create", "clone", "reset", "grant", "matrix", "department"}
         @@ b :> {"login", "self", "suspend", "delete"}
=============================================================================
