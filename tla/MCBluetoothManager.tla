------------------------- MODULE MCBluetoothManager -------------------------
EXTENDS BluetoothManager
MCPhone == {1, 2}
MCFavourites == {1}
=============================================================================
