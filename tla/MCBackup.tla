---- MODULE MCBackup ----
EXTENDS Backup
====
