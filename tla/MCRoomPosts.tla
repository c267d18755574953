---------------------------- MODULE MCRoomPosts ----------------------------
(* Small instances of RoomPosts for TLC.  Rooms and posts are numbers; the   *)
(* other keys, and handlers of one kind, are interchangeable.                *)
EXTENDS RoomPosts, TLC

Keys == Permutations(User) \cup Permutations(FavId) \cup Permutations(Slot)
=============================================================================
