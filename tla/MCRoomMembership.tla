-------------------------- MODULE MCRoomMembership --------------------------
(* Instances of RoomMembership for TLC.                                    *)
EXTENDS RoomMembership, TLC

\* Users, requests and codes are interchangeable: Init picks any host, any
\* members and any code.
Symmetry == Permutations(Users) \cup Permutations(Requests) \cup Permutations(Codes)
=============================================================================
