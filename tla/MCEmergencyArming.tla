------------------------ MODULE MCEmergencyArming ------------------------
EXTENDS EmergencyArming

PassGaps == {1, 3}
=============================================================================
