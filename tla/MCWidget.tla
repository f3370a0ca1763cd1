------------------------------ MODULE MCWidget ------------------------------
(* A street of two addresses, listed a page each; the text that finds the   *)
(* street also finds one of them, and nothing is found for the other's.     *)
EXTENDS Widget

CONSTANTS empty, main, mainSt, addrA, addrB, street, a, b

MCTextOf == [s \in Streets \cup Civics |->
               CASE s = street -> mainSt [] s = a -> addrA [] s = b -> addrB]

MCLists == [q \in Questions |->
  CASE q = <<main, NoStreet>> -> <<street, a>>
    [] q = <<mainSt, NoStreet>> -> <<street>>
    [] q = <<mainSt, street>> -> <<a, b>>
    [] q[1] = addrA -> <<a>>
    [] OTHER -> <<>>]

MCPageEnds == [q \in Questions |-> IF q = <<mainSt, street>> THEN <<1, 2>> ELSE <<Len(MCLists[q])>>]
=============================================================================
