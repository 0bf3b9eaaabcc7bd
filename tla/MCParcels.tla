----------------------------- MODULE MCParcels -----------------------------
(* An instance of the parcel dispatch for TLC. *)
EXTENDS ParcelsProperties, TLC

CONSTANTS d1, d2, b1

Place(ground, lift, floor) ==
    [isGroundFloor |-> ground, liftAvailable |-> lift, floorNumber |-> floor]

Upstairs == Place("false", "false", 4)

\* Up to ten kilometres, and a negative distance.
SomeDistances == -5 .. 100

Complete ==
    [selected |-> "true", textsValid |-> TRUE,
     pickup |-> Place("true", "other", 7), drop |-> Upstairs,
     goodsType |-> "allowed", itemCount |-> 3, maxItemWeightKg |-> 50]

Unfinished == {None, Place("other", "true", 1), Place("false", "other", 1),
               Place("false", "true", 0), Place("false", "true", -1), Place("false", "true", None)}

\* No add-on, the complete one, and those that differ from it in a field or two and
\* are not complete.
SomeAssists ==
    {None, Complete}
    \cup {[Complete EXCEPT !.selected = f, !.goodsType = g] :
            f \in Flag, g \in {"blank", "prohibited"}}
    \cup {[Complete EXCEPT !.pickup = l] : l \in Unfinished}
    \cup {[Complete EXCEPT !.drop = l] : l \in Unfinished}
    \cup {[Complete EXCEPT !.textsValid = FALSE]}
    \cup {[Complete EXCEPT !.itemCount = n] : n \in {None, -1, 0}}
    \cup {[Complete EXCEPT !.maxItemWeightKg = w] : w \in {Unreadable, 51}}
=============================================================================
