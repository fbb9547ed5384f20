---- MODULE MCOneFile ----
EXTENDS OneFile
====
