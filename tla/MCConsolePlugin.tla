-------------------------- MODULE MCConsolePlugin --------------------------
EXTENDS ConsolePlugin
=============================================================================
