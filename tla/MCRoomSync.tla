----------------------------- MODULE MCRoomSync -----------------------------
EXTENDS RoomSync
=============================================================================
