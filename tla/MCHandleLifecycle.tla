-------------------------- MODULE MCHandleLifecycle --------------------------
EXTENDS HandleLifecycle
=============================================================================
