---------------------------- MODULE MCPbsClaims ----------------------------
(* Two schemes for TLC, due in the same month.                              *)
(* The first clerk creates claims, by hand and by auto-transfer; the other *)
(* saves schemes, edits claims and deletes them.                           *)
EXTENDS PbsClaims, TLC

CONSTANTS a, b, s, t

MCRegistered ==
  s :> [pbsIndc |-> TRUE, claimIndc |-> FALSE, kind |-> "19K", due |-> 0]
  @@ t :> [pbsIndc |-> TRUE, claimIndc |-> FALSE, kind |-> "21K", due |-> 0]
MCSplitOps == a :> {"claim", "transfer"} @@ b :> {"save", "edit", "delete"}
MCAllOps == a :> OpNames @@ b :> {}
=============================================================================
