------------------------------ MODULE MCProcess ------------------------------
EXTENDS ProcessProperties
=============================================================================
