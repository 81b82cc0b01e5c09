-------------------------- MODULE MCAvailabilityHolds --------------------------
(* A provider with the models x and y, either of which can be held alone, and *)
(* another with z; one actor that x or z can serve and one for y.             *)
EXTENDS AvailabilityHolds

CONSTANTS x, y, z, p, px, q, a, b

MCCovers == [s \in Scope |-> CASE s = p -> {x, y} [] s = px -> {x} [] s = q -> {z}]
MCPool   == [c \in Actor |-> IF c = a THEN {x, z} ELSE {y}]
=============================================================================
