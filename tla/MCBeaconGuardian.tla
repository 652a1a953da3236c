--------------------------- MODULE MCBeaconGuardian ---------------------------
\* Instance of BeaconGuardian for TLC: the values that a .cfg cannot write.
EXTENDS BeaconGuardian

OneDirectory == <<"documents">>
=============================================================================
