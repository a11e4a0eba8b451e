------------------------- MODULE MCBluetoothTracks --------------------------
EXTENDS BluetoothTracks
MCPhone == {1, 2}
MCFavourites == {1}
=============================================================================
