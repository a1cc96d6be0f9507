----------------------------- MODULE MCRxSignal -----------------------------
EXTENDS RxSignal

CONSTANTS roll, pitch, aux

RollAndPitch == {roll, pitch}
OneAux == {aux}
=============================================================================
