--------------------------- MODULE MCSharingSession ---------------------------
(* Instances of SharingSession for TLC. *)
EXTENDS SharingSession, TLC

CONSTANTS alice, bob, q1, q2, r1, r2, r3

\* bob owns every QR and receives what is shared through it.
MCOwner == [q \in Qrs |-> bob]

\* Request slots are interchangeable, and so are browsers.
Slots == Permutations(Requests) \cup Permutations(Browsers)
=============================================================================
