----------------------------- MODULE MCFailsafe -----------------------------
EXTENDS Failsafe

AllProcedures == Procedure

=============================================================================
