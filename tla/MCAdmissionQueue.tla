--------------------------- MODULE MCAdmissionQueue ---------------------------
(* A provider lane p and a model lane m linked to it; one item for p alone,    *)
(* one that either can serve and one for m alone.                              *)
EXTENDS AdmissionQueue

CONSTANTS p, m, i1, i2, i3

MCProvider   == [l \in Lane |-> IF l = m THEN p ELSE l]
MCCandidates == [i \in Item |-> CASE i = i1 -> {p}
                                  [] i = i2 -> {m, p}
                                  [] i = i3 -> {m}]
=============================================================================
