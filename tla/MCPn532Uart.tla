---------------------------- MODULE MCPn532Uart ----------------------------
EXTENDS Pn532Uart
=============================================================================
