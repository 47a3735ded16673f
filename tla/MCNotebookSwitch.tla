-------------------------- MODULE MCNotebookSwitch --------------------------
\* Model-checking instance of NotebookSwitch.
EXTENDS NotebookSwitch
=============================================================================
