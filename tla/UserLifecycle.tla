--------------------------- MODULE UserLifecycle ---------------------------
(***************************************************************************)
(* What the way from sign-up to a running business promises: a user is     *)
(* told to be somewhere only after obtaining what it takes to be there,    *)
(* nothing obtained is lost, and an entity comes after what it is made     *)
(* of.  A user may be told so again, and may be taken back.                *)
(***************************************************************************)
CONSTANT Users

VARIABLES
  has,    \* what a user has obtained
  stands  \* where a user has been told to be

Needs == [
  START |-> {},
  SHOPPING |-> {"cart"},
  PAID |-> {"package"},
  COMPLETED |-> {"package", "papers", "entity"}]

Things == {"cart", "package", "papers", "entity"}
TakenFrom(thing) == IF thing = "entity" THEN {"package", "papers"} ELSE {}

Init ==
  /\ has = [u \in Users |-> {}]
  /\ stands = [u \in Users |-> "START"]

Tell(u, place) ==
  /\ stands' = [stands EXCEPT ![u] = place]
  /\ Needs[place] \subseteq has[u]
  /\ UNCHANGED has

Obtain(u, thing) ==
  /\ UNCHANGED stands
  /\ TakenFrom(thing) \subseteq has[u]
  /\ has' = [has EXCEPT ![u] = has[u] \union {thing}]

Next ==
  \E u \in Users :
    (\E place \in DOMAIN Needs : Tell(u, place)) \/ (\E thing \in Things : Obtain(u, thing))

Spec == Init /\ [][Next]_<<has, stands>>
=============================================================================
