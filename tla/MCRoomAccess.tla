---------------------------- MODULE MCRoomAccess ----------------------------
EXTENDS RoomAccess
=============================================================================
