------------------------------ MODULE MCBlackbox ------------------------------
EXTENDS Blackbox
===============================================================================
