---------------------------- MODULE MCSimulator -----------------------------
EXTENDS Simulator
=============================================================================
