------------------------- MODULE MCPropertyService -------------------------
(* One property with a default and one that local.prop sets. *)
EXTENDS PropertyService

CONSTANTS tz, usb, v1, v2

MCDefault == [n \in Name |-> IF n = tz THEN v1 ELSE None]
MCOverride == [n \in Name |-> IF n = usb THEN v2 ELSE None]
MCLegacy == {Nothing, [n \in Name |-> v2], [n \in Name |-> IF n = usb THEN v1 ELSE None]}
=============================================================================
