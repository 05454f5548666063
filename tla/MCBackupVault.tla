--------------------------- MODULE MCBackupVault ---------------------------
EXTENDS BackupVault
CONSTANTS d1, d2, r1, r2
============================================================================
