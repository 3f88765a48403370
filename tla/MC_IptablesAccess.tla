-------------------------- MODULE MC_IptablesAccess --------------------------
EXTENDS IptablesAccess

\* Every combination of SshAccess and AllowAppVnc.
MC_Configs == [ssh : BOOLEAN, vnc : BOOLEAN]
=============================================================================
