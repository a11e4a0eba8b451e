----------------------------- MODULE MCCluster -----------------------------
EXTENDS Cluster
MCRpms == {0, 60}
MCFrames == MCRpms \cup {Other}
MCVoltages == {11356, 11380, 11400}
=============================================================================
