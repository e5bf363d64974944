--------------------------- MODULE MCDeviceGrabber ---------------------------
(* Small instances of DeviceGrabber for TLC.                                *)
EXTENDS DeviceGrabber
=============================================================================
