------------------------------ MODULE MapHover ------------------------------
(***************************************************************************)
(* The hover and pinned popups of the map, and their sheets on phones.     *)
(*                                                                         *)
(* Three atoms hold what is hovered and pinned.  The stop layer, the       *)
(* vehicle layer, the popups themselves and the rows of the side panel     *)
(* write them, each knowing only its own part, and each layer has a timer  *)
(* that closes its popup 200 ms after the pointer left.                    *)
(*                                                                         *)
(* The pointer goes from one thing to the next through "off" (the map's    *)
(* background or the panel): a leave comes before the next enter.  Time    *)
(* is abstract: a pending timer may fire at any moment.  A page is there   *)
(* as soon as it is navigated to.                                          *)
(***************************************************************************)
EXTENDS Naturals

CONSTANTS
  Stops, Vehicles,
  None

ASSUME MapHoverAssumption == None \notin Stops \cup Vehicles

VARIABLES
  isMobile,         \* the width of the screen, which decides on sheets or popups
  page,
  pointer,          \* [on, of]: what the pointer is on (desktop)
  hoveringStop,     \* the three atoms
  hoveringVehicle,
  pinnedVehicle,
  stopClose,        \* the timers of useHoverClose: [held, lost], whether
  vehicleClose,     \* closeTimerRef's runs, and how many run that it forgot
  listed,           \* the vehicles of the last poll (vehiclesById)
  drawn,            \* the vehicles of the last animation frame
  fromRow           \* history: the layers whose hover a row of the panel set

pointing == <<isMobile, page, pointer>>
atoms == <<hoveringStop, hoveringVehicle, pinnedVehicle>>
timers == <<stopClose, vehicleClose>>
vehicleSource == <<listed, drawn>>
vars == <<pointing, atoms, timers, vehicleSource, fromRow>>

Pages == {"nearby", "stop", "route", "trip", "list"}

Off == [on |-> "off", of |-> None]

On(thing, id) == [on |-> thing, of |-> id]

Pointers ==
  {Off, On("stopPopup", None), On("vehiclePopup", None), On("unknownVehicle", None)}
  \cup [on : {"stop", "stopRow"}, of : Stops]
  \cup [on : {"vehicle", "vehicleRow"}, of : Vehicles]

\* Rows that highlight a stop: a route's stops, results, recents, favourites.
\* Rows that highlight a vehicle: the badges of a route's and a trip's timeline.
StopRowPages == {"route", "list"}
VehicleRowPages == {"route", "trip"}

----------------------------------------------------------------------------
(* What the layers show. *)

popupVehicle == IF pinnedVehicle # None THEN pinnedVehicle ELSE hoveringVehicle

StopLayer ==
  [ring  |-> hoveringStop,
   sheet |-> IF isMobile THEN hoveringStop ELSE None,
   popup |-> IF isMobile THEN None ELSE hoveringStop]

VehicleLayer ==
  [ring  |-> IF hoveringVehicle # None THEN hoveringVehicle ELSE pinnedVehicle,
   sheet |-> IF isMobile THEN popupVehicle ELSE None,
   popup |-> IF isMobile THEN None ELSE popupVehicle]

\* A sheet is modal: nothing below it is tapped.
MapPeekSheet == StopLayer.sheet # None \/ VehicleLayer.sheet # None

\* useLayerEvents: the layers' enter and leave handlers are for a pointer only,
\* and a click that a layer handles does not reach the background.
Hovers == ~isMobile
Reachable(thing, id) == IF isMobile THEN ~MapPeekSheet ELSE pointer = On(thing, id)
useMapClick == IF isMobile THEN ~MapPeekSheet ELSE pointer = Off

----------------------------------------------------------------------------
(* useHoverClose *)

\* Mutant: a re-entry leaves the timer running.
cancelCloseNever(t) == t

scheduleClose(t) ==
  [held |-> TRUE, lost |-> IF t.held THEN t.lost + 1 ELSE t.lost]

cancelClose(t) == [held |-> FALSE, lost |-> t.lost]

Pending(t) == t.held \/ t.lost > 0

Fired(t) == IF t.held THEN [held |-> FALSE, lost |-> t.lost]
            ELSE [held |-> FALSE, lost |-> t.lost - 1]

----------------------------------------------------------------------------
(* Events of the stop layer. *)

\* Mutant: the vehicle popups are left as they are.
EnterStopAlone(s) ==
  /\ Hovers /\ pointer = Off
  /\ pointer' = On("stop", s)
  /\ stopClose' = cancelClose(stopClose)
  /\ hoveringStop' = s
  /\ fromRow' = fromRow \ {"stop"}
  /\ UNCHANGED <<isMobile, page, hoveringVehicle, pinnedVehicle, vehicleClose, vehicleSource>>

EnterStop(s) ==
  /\ Hovers /\ pointer = Off
  /\ pointer' = On("stop", s)
  /\ stopClose' = cancelClose(stopClose)
  /\ hoveringVehicle' = None /\ pinnedVehicle' = None
  /\ hoveringStop' = s
  /\ fromRow' = fromRow \ {"stop"}
  /\ UNCHANGED <<isMobile, page, vehicleClose, vehicleSource>>

LeaveStop ==
  /\ Hovers /\ pointer.on = "stop"
  /\ pointer' = Off
  /\ stopClose' = scheduleClose(stopClose)
  /\ UNCHANGED <<isMobile, page, atoms, vehicleClose, vehicleSource, fromRow>>

\* A tap opens the sheet; a click goes to the stop's page.
ClickStop(s) ==
  /\ Reachable("stop", s)
  /\ pinnedVehicle' = None /\ hoveringVehicle' = None
  /\ IF isMobile
     THEN hoveringStop' = s /\ fromRow' = fromRow \ {"stop"} /\ page' = page
     ELSE page' = "stop" /\ UNCHANGED <<hoveringStop, fromRow>>
  /\ UNCHANGED <<isMobile, pointer, timers, vehicleSource>>

\* Mutants: the popup takes the pointer without stopping the timer; the pointer
\* leaves it without starting one.
EnterStopPopupRunning ==
  /\ pointer = Off /\ StopLayer.popup # None
  /\ pointer' = On("stopPopup", None)
  /\ UNCHANGED <<isMobile, page, atoms, timers, vehicleSource, fromRow>>
LeaveStopPopupOpen ==
  /\ pointer.on = "stopPopup"
  /\ pointer' = Off
  /\ UNCHANGED <<isMobile, page, atoms, timers, vehicleSource, fromRow>>

EnterStopPopup ==
  /\ pointer = Off /\ StopLayer.popup # None
  /\ pointer' = On("stopPopup", None)
  /\ stopClose' = cancelClose(stopClose)
  /\ UNCHANGED <<isMobile, page, atoms, vehicleClose, vehicleSource, fromRow>>

LeaveStopPopup ==
  /\ pointer.on = "stopPopup"
  /\ pointer' = Off
  /\ stopClose' = scheduleClose(stopClose)
  /\ UNCHANGED <<isMobile, page, atoms, vehicleClose, vehicleSource, fromRow>>

\* A link to one of the stop's routes closes neither the popup nor the sheet.
StopPopupContent ==
  /\ pointer.on = "stopPopup" \/ StopLayer.sheet # None
  /\ page' = "route"
  /\ UNCHANGED <<isMobile, pointer, atoms, timers, vehicleSource, fromRow>>

CloseStopSheet ==
  /\ StopLayer.sheet # None
  /\ hoveringStop' = None
  /\ UNCHANGED <<pointing, hoveringVehicle, pinnedVehicle, timers, vehicleSource, fromRow>>

\* StopPeekSheet: "View arrivals" closes the sheet and goes to the stop.
ViewStop ==
  /\ StopLayer.sheet # None
  /\ hoveringStop' = None
  /\ page' = "stop"
  /\ UNCHANGED <<isMobile, pointer, hoveringVehicle, pinnedVehicle, timers, vehicleSource, fromRow>>

----------------------------------------------------------------------------
(* Events of the vehicle layer. *)

\* A marker that the last poll dropped is drawn until the next frame: the
\* handlers do not find its vehicle.
EnterVehicle(v) ==
  /\ Hovers /\ pointer = Off /\ v \in drawn
  /\ vehicleClose' = cancelClose(vehicleClose)
  /\ hoveringStop' = None
  /\ IF v \in listed
     THEN /\ pointer' = On("vehicle", v)
          /\ hoveringVehicle' = v
          /\ fromRow' = fromRow \ {"vehicle"}
     ELSE pointer' = On("unknownVehicle", None) /\ UNCHANGED <<hoveringVehicle, fromRow>>
  /\ UNCHANGED <<isMobile, page, pinnedVehicle, stopClose, vehicleSource>>

LeaveVehicle ==
  /\ Hovers /\ pointer.on \in {"vehicle", "unknownVehicle"}
  /\ pointer' = Off
  /\ vehicleClose' = scheduleClose(vehicleClose)
  /\ UNCHANGED <<isMobile, page, atoms, stopClose, vehicleSource, fromRow>>

\* On the Nearby screen a click picks the bus there, and nothing else happens.
ClickVehicle(v) ==
  /\ Reachable("vehicle", v) /\ v \in listed /\ v \in drawn
  /\ page # "nearby"
  /\ hoveringStop' = None
  /\ pinnedVehicle' = v
  /\ page' = IF isMobile THEN page ELSE "route"
  /\ UNCHANGED <<isMobile, pointer, hoveringVehicle, timers, vehicleSource, fromRow>>

EnterVehiclePopup ==
  /\ pointer = Off /\ VehicleLayer.popup # None
  /\ pointer' = On("vehiclePopup", None)
  /\ vehicleClose' = cancelClose(vehicleClose)
  /\ UNCHANGED <<isMobile, page, atoms, stopClose, vehicleSource, fromRow>>

LeaveVehiclePopup ==
  /\ pointer.on = "vehiclePopup"
  /\ pointer' = Off
  /\ vehicleClose' = scheduleClose(vehicleClose)
  /\ UNCHANGED <<isMobile, page, atoms, stopClose, vehicleSource, fromRow>>

\* The links to the vehicle's route and next stop close nothing either.
VehiclePopupContent ==
  /\ pointer.on = "vehiclePopup" \/ VehicleLayer.sheet # None
  /\ page' \in {"route", "stop"}
  /\ UNCHANGED <<isMobile, pointer, atoms, timers, vehicleSource, fromRow>>

closePopup ==
  /\ VehicleLayer.sheet # None
  /\ pinnedVehicle' = None /\ hoveringVehicle' = None
  /\ UNCHANGED <<pointing, hoveringStop, timers, vehicleSource, fromRow>>

handleMapClick ==
  /\ useMapClick
  /\ pinnedVehicle' = None /\ hoveringVehicle' = None
  /\ UNCHANGED <<pointing, hoveringStop, timers, vehicleSource, fromRow>>

\* A poll changes the list; the frame after it draws what the list holds then.
Poll(vs) ==
  /\ listed' = vs
  /\ UNCHANGED <<pointing, atoms, timers, drawn, fromRow>>

useAnimatedVehicleSource ==
  /\ drawn' = listed
  /\ UNCHANGED <<pointing, atoms, timers, listed, fromRow>>

----------------------------------------------------------------------------
(* The timers, and the rows of the side panel. *)

StopTimerFires ==
  /\ Pending(stopClose)
  /\ stopClose' = Fired(stopClose)
  /\ hoveringStop' = None
  /\ UNCHANGED <<pointing, hoveringVehicle, pinnedVehicle, vehicleClose, vehicleSource, fromRow>>

VehicleTimerFires ==
  /\ Pending(vehicleClose)
  /\ vehicleClose' = Fired(vehicleClose)
  /\ hoveringVehicle' = None
  /\ UNCHANGED <<pointing, hoveringStop, pinnedVehicle, stopClose, vehicleSource, fromRow>>

\* A row sets its atom and leaves the timers and the other atoms alone.
EnterStopRow(s) ==
  /\ Hovers /\ pointer = Off /\ page \in StopRowPages
  /\ pointer' = On("stopRow", s)
  /\ hoveringStop' = s
  /\ fromRow' = fromRow \cup {"stop"}
  /\ UNCHANGED <<isMobile, page, hoveringVehicle, pinnedVehicle, timers, vehicleSource>>

LeaveStopRow ==
  /\ pointer.on = "stopRow"
  /\ pointer' = Off
  /\ hoveringStop' = None
  /\ UNCHANGED <<isMobile, page, hoveringVehicle, pinnedVehicle, timers, vehicleSource, fromRow>>

EnterVehicleRow(v) ==
  /\ Hovers /\ pointer = Off /\ page \in VehicleRowPages
  /\ pointer' = On("vehicleRow", v)
  /\ hoveringVehicle' = v
  /\ fromRow' = fromRow \cup {"vehicle"}
  /\ UNCHANGED <<isMobile, page, hoveringStop, pinnedVehicle, timers, vehicleSource>>

LeaveVehicleRow ==
  /\ pointer.on = "vehicleRow"
  /\ pointer' = Off
  /\ hoveringVehicle' = None
  /\ UNCHANGED <<isMobile, page, hoveringStop, pinnedVehicle, timers, vehicleSource, fromRow>>

\* A click on a row, Back, the tabs: the rows go away, and a row that goes away
\* under the pointer gets no leave event.
Navigate(p) ==
  /\ ~MapPeekSheet
  /\ pointer.on \in {"off", "stopRow", "vehicleRow"}
  /\ page' = p
  /\ pointer' = Off
  /\ UNCHANGED <<isMobile, atoms, timers, vehicleSource, fromRow>>

Init ==
  /\ isMobile \in BOOLEAN
  /\ page \in Pages
  /\ pointer = Off
  /\ hoveringStop = None /\ hoveringVehicle = None /\ pinnedVehicle = None
  /\ stopClose = [held |-> FALSE, lost |-> 0]
  /\ vehicleClose = [held |-> FALSE, lost |-> 0]
  /\ listed = {} /\ drawn = {}
  /\ fromRow = {}

StopEvent ==
  \/ \E s \in Stops : EnterStop(s) \/ ClickStop(s) \/ EnterStopRow(s)
  \/ LeaveStop \/ EnterStopPopup \/ LeaveStopPopup \/ LeaveStopRow
  \/ StopPopupContent \/ CloseStopSheet \/ ViewStop

VehicleEvent ==
  \/ \E v \in Vehicles : EnterVehicle(v) \/ ClickVehicle(v) \/ EnterVehicleRow(v)
  \/ LeaveVehicle \/ EnterVehiclePopup \/ LeaveVehiclePopup \/ LeaveVehicleRow
  \/ VehiclePopupContent \/ closePopup \/ handleMapClick

Next ==
  \/ StopEvent
  \/ VehicleEvent
  \/ StopTimerFires \/ VehicleTimerFires
  \/ \E vs \in SUBSET Vehicles : Poll(vs)
  \/ useAnimatedVehicleSource
  \/ \E p \in Pages : Navigate(p)

Spec == Init /\ [][Next]_vars

\* The browser runs a pending timer.
FairSpec == Spec /\ WF_vars(StopTimerFires) /\ WF_vars(VehicleTimerFires)

----------------------------------------------------------------------------
(* Properties *)

Timer == [held : BOOLEAN, lost : Nat]

\* Types of the variables; on a phone nothing hovers and no timer runs.
TypeOK ==
  /\ isMobile \in BOOLEAN /\ page \in Pages /\ pointer \in Pointers
  /\ hoveringStop \in Stops \cup {None}
  /\ hoveringVehicle \in Vehicles \cup {None} /\ pinnedVehicle \in Vehicles \cup {None}
  /\ stopClose \in Timer /\ vehicleClose \in Timer
  /\ listed \in SUBSET Vehicles /\ drawn \in SUBSET Vehicles
  /\ fromRow \in SUBSET {"stop", "vehicle"}
  /\ isMobile => pointer = Off /\ ~Pending(stopClose) /\ ~Pending(vehicleClose)

\* What the pointer is on is what is shown: a timer started by an earlier leave
\* closes neither the popup of the feature the pointer has come back to nor the
\* popup the pointer has entered.
HoverUnderPointer ==
  /\ pointer.on = "stop" => StopLayer.popup = pointer.of
  /\ pointer.on = "stopPopup" => StopLayer.popup # None
  /\ pointer.on = "vehicle" => VehicleLayer.ring = pointer.of /\ VehicleLayer.popup # None
  /\ pointer.on = "vehiclePopup" => VehicleLayer.popup # None

\* closeTimerRef knows every timer that runs: none is overwritten by a second
\* leave, to fire when it can no longer be cancelled.
NoLostTimer == stopClose.lost = 0 /\ vehicleClose.lost = 0

BothOpen == hoveringStop # None /\ popupVehicle # None

\* The map alone never comes to show a stop's and a vehicle's popup at once, nor
\* two sheets: only a row of the panel adds a second one.
OnlyRowsAddPopup == [][~BothOpen /\ BothOpen' => pointer'.on \in {"stopRow", "vehicleRow"}]_vars

StopLeft == hoveringStop # None /\ "stop" \notin fromRow
  /\ pointer.on \notin {"stop", "stopPopup"}
VehicleLeft == hoveringVehicle # None /\ "vehicle" \notin fromRow
  /\ pointer.on \notin {"vehicle", "unknownVehicle", "vehiclePopup"}

\* A popup that hovering on the map opened closes once the pointer has left,
\* whatever the pointer meets next, unless it comes back.
HoverEnds ==
  /\ ~isMobile /\ StopLeft ~> ~StopLeft
  /\ ~isMobile /\ VehicleLeft ~> ~VehicleLeft

=============================================================================
