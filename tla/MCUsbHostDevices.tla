------------------------- MODULE MCUsbHostDevices -------------------------
(***************************************************************************)
(* UsbHostDevices for TLC: a keyboard, a headset with buttons, whichever   *)
(* of its interfaces comes first, and the adapter that is known by its     *)
(* ids.  Devices follow one another at a path or the worker is replaced,   *)
(* with the display or a reset, or there is a hub on another bus, or one   *)
(* with a headset behind it.                                               *)
(***************************************************************************)
EXTENDS UsbHostDevices, TLC

CONSTANTS p1, p2, p3, usb1, usb2

Keyboard   == <<"hid">>
Headset    == <<"audio", "hid">>
HidHeadset == <<"hid", "audio">>
Adapter    == <<"adapter">>

MCKinds == p1 :> {Keyboard, Headset, HidHeadset, Adapter}
           @@ p2 :> {Hub} @@ p3 :> {Headset}

MCBusOf == p1 :> usb1 @@ p2 :> usb2 @@ p3 :> usb2

MCParent == p1 :> usb1 @@ p2 :> usb2 @@ p3 :> p2

Budget(first, second, behind, flips, resets, sessions) ==
    p1 :> first @@ p2 :> second @@ p3 :> behind
    @@ [flips |-> flips, resets |-> resets, sessions |-> sessions]

(* A headset behind a hub asks for a reset.                                *)
HubBudgets == {Budget(0, 1, 1, 0, 1, 1)}

MCBudgets == HubBudgets
    \cup {Budget(2, 0, 0, 1, 0, 1), Budget(1, 0, 0, 2, 0, 2),
          Budget(2, 0, 0, 0, 1, 2), Budget(1, 1, 0, 0, 1, 1)}
=============================================================================
