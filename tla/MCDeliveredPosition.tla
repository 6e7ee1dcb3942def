------------------------ MODULE MCDeliveredPosition ------------------------
EXTENDS DeliveredPosition
=============================================================================
