------------------------------ MODULE MCWindUp ------------------------------
EXTENDS WindUp
=============================================================================
