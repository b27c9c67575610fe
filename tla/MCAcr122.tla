------------------------------ MODULE MCAcr122 ------------------------------
EXTENDS Acr122
=============================================================================
