---------------------------- MODULE LoadAssist ----------------------------
(***************************************************************************)
(* The loading/unloading add-on of a parcel booking: validation and fare.  *)
(* A JSON value is abstracted to what the code asks of it: a flag is true, *)
(* false or anything else, a number is an integer (JSON true counts as 1)  *)
(* or None, a text is blank, allowed or names prohibited goods.            *)
(***************************************************************************)
EXTENDS Integers

CONSTANTS
    None,           \* a missing value, or one of the wrong type
    Unreadable      \* a weight that float() does not take

Flag == {"true", "false", "other"}
Location == [isGroundFloor : Flag, liftAvailable : Flag, floorNumber : Int \cup {None}]

Payload == [selected : Flag,
            pickup : Location \cup {None}, drop : Location \cup {None},
            goodsType : {"blank", "allowed", "prohibited"},
            itemCount : Int \cup {None},
            textsValid : BOOLEAN,       \* serviceType, and the length of customerNotes
            maxItemWeightKg : Int \cup {None, Unreadable}]

ASSUME LoadAssistAssumption == None \notin Int /\ Unreadable \notin Int /\ None # Unreadable

MaxItemWeightKg == 50

BaseServiceFee == 50
PerItemRate == 7
PerFloorRate == 100
NoLiftSurcharge == 150

Positive(n) == n # None /\ n > 0

\* _validate_location: lift and floor only matter above the ground floor.
UpstairsDescribed(l) ==
    /\ l.isGroundFloor = "false"
    /\ l.liftAvailable \in {"true", "false"}
    /\ Positive(l.floorNumber)

LocationValid(l) == l # None /\ (l.isGroundFloor = "true" \/ UpstairsDescribed(l))

IsProhibitedGoods(a) ==
    \/ a.goodsType = "prohibited"
    \/ a.maxItemWeightKg = Unreadable
    \/ a.maxItemWeightKg \in Int /\ a.maxItemWeightKg > MaxItemWeightKg

\* validate_load_assist_payload of a selected add-on of a pickup truck booking.
AssistValid(a) ==
    /\ a.textsValid
    /\ LocationValid(a.pickup) /\ LocationValid(a.drop)
    /\ a.goodsType # "blank"
    /\ Positive(a.itemCount)
    /\ ~IsProhibitedGoods(a)

\* A slip: the floor of a ground floor location, should one be sent, is billed.
SentFloorCount(l) == IF l.floorNumber = None THEN 0 ELSE l.floorNumber

BillableFloorCount(l) == IF l.isGroundFloor = "true" THEN 0 ELSE l.floorNumber

NoLift(l) == IF l.isGroundFloor # "true" /\ l.liftAvailable # "true" THEN 1 ELSE 0

\* calculate_service_fare, of an add-on that is selected and valid.
ServiceFare(a) ==
    LET floors == BillableFloorCount(a.pickup) + BillableFloorCount(a.drop)
        noLift == NoLift(a.pickup) + NoLift(a.drop)
    IN  BaseServiceFee + a.itemCount * PerItemRate + floors * PerFloorRate
          + noLift * NoLiftSurcharge
=============================================================================
