---------------------------- MODULE MCToolStream ----------------------------
EXTENDS ToolStream
=============================================================================
