---------------------------- MODULE MCWebSocket ----------------------------
EXTENDS WebSocketTransport

=============================================================================
