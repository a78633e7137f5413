------------------------- MODULE MCOffboardControl -------------------------
EXTENDS OffboardControl

SomeAltitudes == {-60, 0}
FiftyUp == -50
=============================================================================
