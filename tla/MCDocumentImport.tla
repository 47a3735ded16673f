-------------------------- MODULE MCDocumentImport --------------------------
\* Model-checking instances of DocumentImport.
EXTENDS DocumentImport, TLC
=============================================================================
