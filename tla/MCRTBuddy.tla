----------------------------- MODULE MCRTBuddy -----------------------------
(***************************************************************************)
(* Model checking of RTBuddy against a coprocessor that sends any of a few *)
(* messages in any order, any number of times.                             *)
(***************************************************************************)
EXTENDS RTBuddy

Mgmt(type, lo, hi) == In(MGMT, type, lo, hi, {})
Epmap(eps, last) == In(MGMT, "EPMAP", last, 0, eps)
BufferRequest(ep, size, addr) == In(ep, "BUFFER_REQUEST", size, addr, {})

\* Power acknowledgements at any moment, of states asked for or not.
PowerMsgs ==
    {Epmap({FIRMWARE, DOORBELL}, 1),
     Mgmt("IOP_PWR_ACK", PWR_ON, 0), Mgmt("IOP_PWR_ACK", PWR_SLEEP, 0),
     Mgmt("AP_PWR_ACK", PWR_ON, 0), Mgmt("AP_PWR_ACK", PWR_QUIESCED, 0)}

\* Buffer requests at any moment, repeated, empty or for a fixed address.
BufferMsgs ==
    {Epmap({FIRMWARE, DOORBELL}, 1),
     Mgmt("IOP_PWR_ACK", PWR_ON, 0), Mgmt("AP_PWR_ACK", PWR_INIT, 0),
     BufferRequest(SYSLOG, 0, 0), BufferRequest(SYSLOG, 4096, 4096),
     BufferRequest(SYSLOG, 4096, 0)}

\* Hellos of several version ranges, a crashlog buffer
\* followed by crashes, and log lines, in any order.
HelloMsgs ==
    {Mgmt("HELLO", 9, 11), Mgmt("HELLO", 12, 14), Mgmt("HELLO", 9, 10),
     BufferRequest(CRASHLOG, 4096, 0),
     In(SYSLOG, "LOG", 0, 0, {})}

\* Enough for a boot, and for a flood of messages the driver drops.
FloodMsgs ==
    {Epmap({FIRMWARE, DOORBELL}, 1),
     Mgmt("IOP_PWR_ACK", PWR_ON, 0), Mgmt("AP_PWR_ACK", PWR_ON, 0),
     In(FIRMWARE, "OTHER", 0, 0, {})}

NoEndpoints == {}
DoorbellOnly == {DOORBELL}
============================================================================
