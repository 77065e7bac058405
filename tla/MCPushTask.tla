---------------------------- MODULE MCPushTask -----------------------------
EXTENDS PushTask

\* Two pushes one after another: the second one meets the task and the
\* staging the first one left, and the ref's tree may differ between them.
MCMaxPushes == 2
=============================================================================
