------------------------- MODULE MCRTBuddyFirmware -------------------------
(***************************************************************************)
(* Model checking of RTBuddyFirmware with the endpoints of                 *)
(* tests/fakefw.hpp (the bitmap 0x11f).                                    *)
(***************************************************************************)
EXTENDS RTBuddyFirmware

AllSystemEndpoints == {MGMT, CRASHLOG, SYSLOG, DEBUG, IOREPORT, OSLOG}
NoMsgs == {}
NoEndpoints == {}
============================================================================
