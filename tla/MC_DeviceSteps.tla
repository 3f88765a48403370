--------------------------- MODULE MC_DeviceSteps ---------------------------
(* A device provisioned with a server and an onboarding certificate.      *)
EXTENDS DeviceSteps
=============================================================================
