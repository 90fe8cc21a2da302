---------------------------- MODULE MCHookBridge ----------------------------
EXTENDS HookBridge

=============================================================================
