----------------------------- MODULE UnitNights -----------------------------
(***************************************************************************)
(* What the inventory screens promise about one resort's unit-nights: a    *)
(* night is closed, open for booking, withdrawn for maintenance or banked  *)
(* to RCI.  One save opens nights, closes nights, or gives some nights of  *)
(* one kind of hold back while it takes others; a held night goes back to  *)
(* open before anything else happens to it.                                *)
(***************************************************************************)
CONSTANTS Units, Days
VARIABLE night

Nights == Units \X Days
States == {"closed", "open", "maintained", "banked"}

Opening == {<<"closed", "open">>}
Closing == {<<"open", "closed">>}
Holding(hold) == {<<"open", hold>>, <<hold, "open">>}

Init == night = [n \in Nights |-> "closed"]

Save(moves) ==
  /\ night' \in [Nights -> States]
  /\ \A n \in Nights :
       night'[n] = night[n] \/ <<night[n], night'[n]>> \in moves

Next ==
  \/ Save(Opening) \/ Save(Closing)
  \/ \E hold \in {"maintained", "banked"} : Save(Holding(hold))

Spec == Init /\ [][Next]_night
=============================================================================
