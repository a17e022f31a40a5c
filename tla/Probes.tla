------------------------------- MODULE Probes -------------------------------
(***************************************************************************)
(* The probes that leave the daemon: the external command, the TCP         *)
(* services and the NTP server.  lbcd_setweight calls one of them at a     *)
(* time, and they share neither variables nor descriptors, so that each    *)
(* behaviour follows the one that is called first.                         *)
(***************************************************************************)
EXTENDS CmdProbe, TcpProbe, Monlist

probeVars == <<cmdVars, vars, ntpVars>>

ProbesInit == CmdInit /\ Init /\ NtpInit

CommandStep == CmdNext /\ pc = "idle" /\ ntp = "idle" /\ UNCHANGED <<vars, ntpVars>>
TcpStep     == Next    /\ at = "idle" /\ ntp = "idle" /\ UNCHANGED <<cmdVars, ntpVars>>
NtpStep     == NtpNext /\ at = "idle" /\ pc = "idle"  /\ UNCHANGED <<cmdVars, vars>>

ProbesNext == CommandStep \/ TcpStep \/ NtpStep

ProbesSpec == /\ ProbesInit /\ [][ProbesNext]_probeVars
              /\ CmdFairness /\ Fairness /\ NtpFairness
=============================================================================
