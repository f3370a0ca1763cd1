---------------------------- MODULE CityRefresh ----------------------------
(* What the address table promises a reader while its cities are brought    *)
(* from one vintage of the register to the next, one city at a time: the    *)
(* rows of a city are withdrawn before its new ones are served, so the      *)
(* reader never sees two vintages of one city mixed, and a city is declared *)
(* done for a vintage only when it is served whole.  docs/nar-data-import.md*)
(* calls the stretch between the two the availability window.               *)
EXTENDS Naturals, FiniteSets

CONSTANTS
  Cities,
  Vintages,
  Full        \* Full[v][c]: the sets of rows that are city c in vintage v

VARIABLES
  served,     \* the rows of each city a reader may be given
  done        \* the vintages each city is declared done for

vars == <<served, done>>

Withdraw(c) ==
  /\ \E rest \in SUBSET served[c] : /\ rest # served[c]
                                    /\ served' = [served EXCEPT ![c] = rest]
  /\ UNCHANGED done

Serve(c, v) ==
  /\ \E full \in Full[v][c] :
       /\ served[c] \subseteq full
       /\ \E more \in SUBSET (full \ served[c]) :
            /\ more # {}
            /\ served' = [served EXCEPT ![c] = @ \cup more]
  /\ UNCHANGED done

Declare(c, v) ==
  /\ served[c] \in Full[v][c]
  /\ done' = [done EXCEPT ![c] = @ \cup {v}]
  /\ UNCHANGED served

Init ==
  /\ done = [c \in Cities |-> {}]
  /\ served \in [Cities -> SUBSET UNION {served[c] : c \in Cities}]

Next == \E c \in Cities : \/ Withdraw(c)
                          \/ \E v \in Vintages : Serve(c, v) \/ Declare(c, v)

RefreshSpec == Init /\ [][Next]_vars
=============================================================================
