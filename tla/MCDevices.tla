----------------------------- MODULE MCDevices -----------------------------
(***************************************************************************)
(* Values for the constants of Devices.                                    *)
(***************************************************************************)
EXTENDS Devices

DvCalls == {"create", "stop", "timer", "kill", "sleep", "wait", "open", "close", "read",
            "write", "ioctl", "keyboard"}
Keys == {"x", ENTER}
=============================================================================
