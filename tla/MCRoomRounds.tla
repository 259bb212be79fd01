---------------------------- MODULE MCRoomRounds ----------------------------
\* A room of three: the owner and two guests, the second of which may be
\* archived and deleted.
EXTENDS RoomRounds, TLC

CONSTANTS owner, guest, last

MCOrder == <<owner, guest, last>>
Symmetry == Permutations(Poster) \cup Permutations(Caller)
=============================================================================
