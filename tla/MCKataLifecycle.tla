--------------------------- MODULE MCKataLifecycle ---------------------------
\* One operation: a cycle and the recoveries that follow it.
EXTENDS KataLifecycle

AllRoutes == {"none", "full", "readiness"}
==============================================================================
