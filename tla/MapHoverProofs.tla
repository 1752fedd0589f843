--------------------------- MODULE MapHoverProofs ---------------------------
(***************************************************************************)
(* Proofs about the popups of the map, for all stops and vehicles: the     *)
(* types, that the popup under the pointer stays, that no timer is lost,   *)
(* and that the map alone never shows two popups.                          *)
(***************************************************************************)
EXTENDS MapHover, TLAPS

\* A row or a feature of the map is one of the pointer's things.
LEMMA PointerTypes ==
  /\ Off \in Pointers
  /\ \A id \in Stops : On("stop", id) \in Pointers /\ On("stopRow", id) \in Pointers
  /\ \A id \in Vehicles : On("vehicle", id) \in Pointers /\ On("vehicleRow", id) \in Pointers
  /\ \A thing \in {"stopPopup", "vehiclePopup", "unknownVehicle"} : On(thing, None) \in Pointers
BY DEF Pointers, Off, On

\* The id of a feature under the pointer is not None.
LEMMA FeatureKnown ==
  ASSUME NEW p \in Pointers
  PROVE  /\ p.on = "stop" => p.of \in Stops
         /\ p.on = "vehicle" => p.of \in Vehicles
BY DEF Pointers, Off, On

\* The operations of useHoverClose keep a timer a timer.
LEMMA TimerTypes ==
  ASSUME NEW t \in Timer
  PROVE  /\ scheduleClose(t) \in Timer /\ cancelClose(t) \in Timer
         /\ Pending(t) => Fired(t) \in Timer
         /\ ~Pending(cancelClose(t)) \/ t.lost > 0
BY DEF Timer, scheduleClose, cancelClose, Pending, Fired

\* While the pointer is on a thing its layer's timer is stopped, and the layer
\* shows the thing; so the next leave finds no timer to overwrite.
StopGuarded ==
  /\ stopClose.lost = 0
  /\ pointer.on = "stop" => ~stopClose.held /\ hoveringStop = pointer.of
  /\ pointer.on = "stopPopup" => ~stopClose.held /\ hoveringStop # None

VehicleGuarded ==
  /\ vehicleClose.lost = 0
  /\ pointer.on = "vehicle" => ~vehicleClose.held /\ hoveringVehicle = pointer.of
  /\ pointer.on = "unknownVehicle" => ~vehicleClose.held
  /\ pointer.on = "vehiclePopup" => ~vehicleClose.held /\ popupVehicle # None

IInv == TypeOK /\ StopGuarded /\ VehicleGuarded


LEMMA Initially == Init => IInv
BY MapHoverAssumption, PointerTypes DEF Init, IInv, TypeOK, StopGuarded, VehicleGuarded, Off, Timer,
     Pending

LEMMA Step == ASSUME IInv, [Next]_vars PROVE IInv'
<1> USE MapHoverAssumption DEF IInv, TypeOK, StopGuarded, VehicleGuarded,
    popupVehicle, Timer, Pending, pointing, atoms, timers, vehicleSource
<1>1. ASSUME NEW s \in Stops, EnterStop(s) PROVE IInv'
  BY <1>1, PointerTypes DEF EnterStop, Hovers, On, Off, cancelClose
<1>2. ASSUME NEW s \in Stops, ClickStop(s) PROVE IInv'
  <2>1. ~isMobile => pointer.on = "stop" /\ pointer.of = s
    BY <1>2 DEF ClickStop, Reachable, On
  <2>2. isMobile => pointer.on = "off"
    BY DEF Off
  <2>3. TypeOK'
    BY <1>2 DEF ClickStop, Pages
  <2>4. StopGuarded' /\ VehicleGuarded'
    BY <1>2, <2>1, <2>2 DEF ClickStop
  <2> QED
    BY <2>3, <2>4
<1>3. ASSUME NEW s \in Stops, EnterStopRow(s) PROVE IInv'
  BY <1>3, PointerTypes DEF EnterStopRow, Hovers, On, Off
<1>4. CASE LeaveStop
  BY <1>4, PointerTypes DEF LeaveStop, Hovers, Off, scheduleClose
<1>5. CASE EnterStopPopup
  BY <1>5, PointerTypes DEF EnterStopPopup, StopLayer, On, Off, cancelClose
<1>6. CASE LeaveStopPopup
  BY <1>6, PointerTypes DEF LeaveStopPopup, Off, scheduleClose
<1>7. CASE LeaveStopRow
  BY <1>7, PointerTypes DEF LeaveStopRow, Off
<1>8. CASE StopPopupContent
  BY <1>8 DEF StopPopupContent, Pages
<1>9. CASE CloseStopSheet
  BY <1>9 DEF CloseStopSheet, StopLayer, Off
<1>10. CASE ViewStop
  BY <1>10 DEF ViewStop, StopLayer, Off, Pages
<1>11. ASSUME NEW v \in Vehicles, EnterVehicle(v) PROVE IInv'
  <2>1. vehicleClose' \in Timer /\ ~vehicleClose'.held /\ vehicleClose'.lost = 0
    BY <1>11 DEF EnterVehicle, cancelClose
  <2>2. CASE v \in listed
    <3>1. pointer' = On("vehicle", v) /\ hoveringVehicle' = v
      BY <1>11, <2>2 DEF EnterVehicle
    <3>2. pointer' \in Pointers /\ pointer'.on = "vehicle" /\ pointer'.of = v
      BY <3>1, PointerTypes DEF On
    <3> QED
      BY <1>11, <2>1, <3>1, <3>2 DEF EnterVehicle, Hovers
  <2>3. CASE v \notin listed
    <3>1. pointer' \in Pointers /\ pointer'.on = "unknownVehicle"
      BY <1>11, <2>3, PointerTypes DEF EnterVehicle, On
    <3> QED
      BY <1>11, <2>1, <2>3, <3>1 DEF EnterVehicle, Hovers
  <2> QED
    BY <2>2, <2>3
<1>12. ASSUME NEW v \in Vehicles, ClickVehicle(v) PROVE IInv'
  <2>1. ~isMobile => pointer.on = "vehicle" /\ pointer.of = v
    BY <1>12 DEF ClickVehicle, Reachable, On
  <2>2. isMobile => pointer.on = "off"
    BY DEF Off
  <2>3. TypeOK'
    BY <1>12 DEF ClickVehicle, Pages
  <2>4. StopGuarded' /\ VehicleGuarded'
    BY <1>12, <2>1, <2>2 DEF ClickVehicle
  <2> QED
    BY <2>3, <2>4
<1>13. ASSUME NEW v \in Vehicles, EnterVehicleRow(v) PROVE IInv'
  BY <1>13, PointerTypes DEF EnterVehicleRow, Hovers, On, Off
<1>14. CASE LeaveVehicle
  BY <1>14, PointerTypes DEF LeaveVehicle, Hovers, Off, scheduleClose
<1>15. CASE EnterVehiclePopup
  BY <1>15, PointerTypes DEF EnterVehiclePopup, VehicleLayer, On, Off, cancelClose
<1>16. CASE LeaveVehiclePopup
  BY <1>16, PointerTypes DEF LeaveVehiclePopup, Off, scheduleClose
<1>17. CASE LeaveVehicleRow
  BY <1>17, PointerTypes DEF LeaveVehicleRow, Off
<1>18. CASE VehiclePopupContent
  BY <1>18 DEF VehiclePopupContent, Pages
<1>19. CASE closePopup
  BY <1>19 DEF closePopup, VehicleLayer, Off
<1>20. CASE handleMapClick
  BY <1>20 DEF handleMapClick, useMapClick, Off
<1>21. CASE StopTimerFires
  <2>1. stopClose.held /\ stopClose'.held = FALSE /\ stopClose'.lost = 0 /\ stopClose' \in Timer
    BY <1>21 DEF StopTimerFires, Fired
  <2>2. TypeOK'
    BY <1>21, <2>1 DEF StopTimerFires
  <2>3. StopGuarded' /\ VehicleGuarded'
    BY <1>21, <2>1 DEF StopTimerFires
  <2> QED
    BY <2>2, <2>3
<1>22. CASE VehicleTimerFires
  <2>1. vehicleClose.held /\ vehicleClose'.held = FALSE /\ vehicleClose'.lost = 0 /\ vehicleClose' \in Timer
    BY <1>22 DEF VehicleTimerFires, Fired
  <2>2. TypeOK'
    BY <1>22, <2>1 DEF VehicleTimerFires
  <2>3. StopGuarded' /\ VehicleGuarded'
    BY <1>22, <2>1 DEF VehicleTimerFires
  <2> QED
    BY <2>2, <2>3
<1>23. ASSUME NEW vs \in SUBSET Vehicles, Poll(vs) PROVE IInv'
  BY <1>23 DEF Poll
<1>24. CASE useAnimatedVehicleSource
  BY <1>24 DEF useAnimatedVehicleSource
<1>25. ASSUME NEW p \in Pages, Navigate(p) PROVE IInv'
  BY <1>25, PointerTypes DEF Navigate, Off
<1>26. CASE UNCHANGED vars
  BY <1>26 DEF vars
<1> QED
  BY <1>1, <1>2, <1>3, <1>4, <1>5, <1>6, <1>7, <1>8, <1>9, <1>10, <1>11, <1>12, <1>13, <1>14, <1>15, <1>16, <1>17, <1>18, <1>19, <1>20, <1>21, <1>22, <1>23, <1>24, <1>25, <1>26 DEF Next, StopEvent, VehicleEvent

LEMMA Invariant == Spec => []IInv
<1> QED
  BY Initially, Step, PTL DEF Spec

\* The types, on phones and on desktops: on a phone no handler of the map hovers
\* and no timer runs.
THEOREM TypeCorrect == Spec => []TypeOK
<1> QED
  BY Invariant, PTL DEF IInv

\* closeTimerRef knows every timer that runs: the pointer leaves a thing only
\* after it entered it, and entering stopped the layer's timer.
THEOREM TimersKnown == Spec => []NoLostTimer
<1>1. IInv => NoLostTimer
  BY DEF IInv, StopGuarded, VehicleGuarded, NoLostTimer
<1> QED
  BY <1>1, Invariant, PTL

\* What the pointer is on is what is shown, whichever timers ran before.
THEOREM PopupStays == Spec => []HoverUnderPointer
<1>1. IInv => HoverUnderPointer
  <2> SUFFICES ASSUME IInv PROVE HoverUnderPointer
    OBVIOUS
  <2> USE DEF IInv, TypeOK, StopGuarded, VehicleGuarded
  <2>1. pointer.on # "off" => ~isMobile
    BY DEF Off
  <2>2. pointer.on = "stop" => StopLayer.popup = pointer.of
    BY <2>1 DEF StopLayer
  <2>3. pointer.on = "stopPopup" => StopLayer.popup # None
    BY <2>1 DEF StopLayer
  <2>4. pointer.on = "vehicle" => VehicleLayer.ring = pointer.of /\ VehicleLayer.popup # None
    BY <2>1, FeatureKnown, MapHoverAssumption DEF VehicleLayer, popupVehicle
  <2>5. pointer.on = "vehiclePopup" => VehicleLayer.popup # None
    BY <2>1 DEF VehicleLayer
  <2> QED
    BY <2>2, <2>3, <2>4, <2>5 DEF HoverUnderPointer
<1> QED
  BY <1>1, Invariant, PTL

\* The map alone never opens a second popup or sheet: whatever opens one of a
\* layer there closes the other layer's in the same event.
THEOREM SecondPopupByRow == Spec => OnlyRowsAddPopup
<1>1. ASSUME [Next]_vars, ~BothOpen, BothOpen'
      PROVE  pointer'.on \in {"stopRow", "vehicleRow"}
  <2> USE DEF BothOpen, popupVehicle
  <2>1. ASSUME NEW s \in Stops, EnterStop(s) PROVE FALSE
    BY <1>1, <2>1 DEF EnterStop
  <2>2. ASSUME NEW s \in Stops, ClickStop(s) PROVE FALSE
    BY <1>1, <2>2 DEF ClickStop
  <2>3. ASSUME NEW s \in Stops, EnterStopRow(s) PROVE pointer'.on = "stopRow"
    BY <2>3 DEF EnterStopRow, On
  <2>4. ASSUME NEW v \in Vehicles, EnterVehicle(v) PROVE FALSE
    BY <1>1, <2>4 DEF EnterVehicle
  <2>5. ASSUME NEW v \in Vehicles, ClickVehicle(v) PROVE FALSE
    BY <1>1, <2>5 DEF ClickVehicle
  <2>6. ASSUME NEW v \in Vehicles, EnterVehicleRow(v) PROVE pointer'.on = "vehicleRow"
    BY <2>6 DEF EnterVehicleRow, On
  <2>7. CASE \/ LeaveStop \/ EnterStopPopup \/ LeaveStopPopup \/ StopPopupContent
             \/ LeaveVehicle \/ EnterVehiclePopup \/ LeaveVehiclePopup \/ VehiclePopupContent
             \/ useAnimatedVehicleSource \/ (\E vs \in SUBSET Vehicles : Poll(vs))
             \/ (\E p \in Pages : Navigate(p)) \/ UNCHANGED vars
    <3>1. UNCHANGED atoms
      BY <2>7 DEF LeaveStop, EnterStopPopup, LeaveStopPopup, StopPopupContent, LeaveVehicle,
                  EnterVehiclePopup, LeaveVehiclePopup, VehiclePopupContent,
                  useAnimatedVehicleSource, Poll, Navigate, vars, atoms
    <3> QED
      BY <1>1, <3>1 DEF atoms
  <2>8. CASE LeaveStopRow \/ CloseStopSheet \/ ViewStop \/ StopTimerFires
    BY <1>1, <2>8 DEF LeaveStopRow, CloseStopSheet, ViewStop, StopTimerFires
  <2>9. CASE LeaveVehicleRow \/ closePopup \/ handleMapClick \/ VehicleTimerFires
    BY <1>1, <2>9 DEF LeaveVehicleRow, closePopup, handleMapClick, VehicleTimerFires
  <2> QED
    BY <1>1, <2>1, <2>2, <2>3, <2>4, <2>5, <2>6, <2>7, <2>8, <2>9
    DEF Next, StopEvent, VehicleEvent
<1>2. [Next]_vars => [~BothOpen /\ BothOpen' => pointer'.on \in {"stopRow", "vehicleRow"}]_vars
  BY <1>1
<1> QED
  BY <1>2, PTL DEF Spec, OnlyRowsAddPopup

=============================================================================
