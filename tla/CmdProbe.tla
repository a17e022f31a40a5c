------------------------------ MODULE CmdProbe ------------------------------
(***************************************************************************)
(* lbcd_cmd_weight (server/weight.c): the daemon, the command it forks and *)
(* the pipe between them, over a sequence of calls.  The daemon waits for  *)
(* the command to end before it reads a byte of its output.                *)
(***************************************************************************)
EXTENDS Integers, FiniteSets

CONSTANTS
  Commands,     \* behaviours of the -c command, one for each call
  PipeCap,      \* blocks of output the pipe holds
  FdLimit,      \* descriptors the daemon may still open
  MaxCalls      \* calls that are followed

(* size is how much the command writes, line what sscanf makes of the      *)
(* first line, eol whether that line ends with a newline or fills the      *)
(* buffer of fgets, ending how the command ends, keeps whether a process   *)
(* it leaves in the background keeps the pipe open.                        *)
Command == [size : Nat, line : {"pair", "partial", "none"}, eol : BOOLEAN,
            ending : {"zero", "nonzero", "signal", "never"}, keeps : BOOLEAN]

ASSUME CommandsAssumption ==
  /\ Commands \subseteq Command /\ Commands # {}
  /\ \A c \in Commands : /\ c.size = 0 <=> c.line = "none"
                         /\ c.eol => c.size > 0
ASSUME LimitsAssumption == /\ PipeCap \in Nat \ {0} /\ FdLimit \in Nat
                           /\ MaxCalls \in Nat \ {0}

VARIABLES
  at,        \* where the daemon is in the call, "idle" before the first
  cmd,       \* the command of this call
  child,     \* "none", "running", "zombie", "reaped"
  pipe,      \* blocks in the pipe
  written,   \* blocks the command has written
  open,      \* descriptors of this call open in the daemon
  sigchld,   \* whether the daemon was started with SIGCHLD ignored
  result,    \* "pair" or "unknown" at the end of a call
  lost,      \* descriptors earlier calls left open
  zombies,   \* children earlier calls did not wait for
  faults,    \* failures so far of fork, of fdopen, and waits cut short
  calls      \* calls so far

own  == <<at, open, result>>
kid  == <<child, pipe, written>>
past == <<lost, zombies, calls>>
cmdVars == <<own, kid, past, cmd, sigchld, faults>>

CmdInit ==
  /\ at = "idle" /\ open = 0 /\ result = "none"
  /\ child = "none" /\ pipe = 0 /\ written = 0
  /\ lost = 0 /\ zombies = 0 /\ calls = 0
  /\ cmd = CHOOSE c \in Commands : TRUE
  /\ sigchld \in BOOLEAN
  /\ faults = [fork |-> 0, fdopen |-> 0, cut |-> 0]

Fault(f) == faults' = [faults EXCEPT ![f] = @ + 1]

(* Every early return goes through lbcd_unknown_weight.                    *)
Returned(r, fds) == at' = "done" /\ result' = r /\ open' = fds
Goto(where) == at' = where /\ UNCHANGED <<open, result>>

-----------------------------------------------------------------------------
(* The daemon.                                                             *)

Pipe ==
  /\ at = "pipe"
  /\ \/ Returned("unknown", 0)
     \/ lost + 2 <= FdLimit /\ at' = "fork" /\ open' = 2 /\ UNCHANGED result
  /\ UNCHANGED <<kid, past, cmd, sigchld, faults>>

(* When fork fails neither end of the pipe is closed; otherwise the daemon *)
(* closes its write end.                                                   *)
Fork ==
  /\ at = "fork"
  /\ \/ Returned("unknown", open) /\ Fault("fork") /\ UNCHANGED child
     \/ /\ child' = "running" /\ at' = "fdopen" /\ open' = open - 1
        /\ UNCHANGED <<result, faults>>
  /\ UNCHANGED <<pipe, written, past, cmd, sigchld>>

(* kill is called with its arguments swapped and reaches nobody, so the    *)
(* daemon waits for the command here too.                                  *)
Fdopen ==
  /\ at = "fdopen"
  /\ \/ Goto("wait") /\ UNCHANGED faults
     \/ Goto("abandon") /\ Fault("fdopen")
  /\ UNCHANGED <<kid, past, cmd, sigchld>>

(* The command has ended.  With SIGCHLD ignored the kernel has reaped it   *)
(* and waitpid fails with ECHILD.                                          *)
Waited == child = "zombie" /\ child' = "reaped" /\ UNCHANGED <<pipe, written>>

Succeeded == cmd.ending = "zero" /\ ~ sigchld

(* Mutants: the exit status is not looked at; the stream stays open when   *)
(* the command fails.                                                      *)
Waitpid_anyStatus ==
  /\ at = "wait" /\ Waited /\ Goto("fgets")
  /\ UNCHANGED <<past, cmd, sigchld, faults>>
Waitpid_leak ==
  /\ at = "wait" /\ Waited
  /\ IF Succeeded THEN Goto("fgets") ELSE Returned("unknown", open)
  /\ UNCHANGED <<past, cmd, sigchld, faults>>

(* The loop around waitpid goes on when a signal interrupts it.            *)
Waitpid ==
  /\ at = "wait"
  /\ Waited
  /\ IF Succeeded THEN Goto("fgets") ELSE Returned("unknown", 0)
  /\ UNCHANGED <<past, cmd, sigchld, faults>>

(* Without a stream there is nothing to close and nothing to read; a       *)
(* signal ends this waitpid, which is not in a loop.                       *)
Abandon ==
  /\ at = "abandon"
  /\ Returned("unknown", open)
  /\ \/ Waited /\ UNCHANGED faults
     \/ Fault("cut") /\ UNCHANGED kid
  /\ UNCHANGED <<past, cmd, sigchld>>

(* Mutant: everything is read, up to end of file.                          *)
Fgets_toEof ==
  /\ at = "fgets"
  /\ ~ cmd.keeps
  /\ Returned(IF cmd.line = "pair" THEN "pair" ELSE "unknown", 0)
  /\ UNCHANGED <<kid, past, cmd, sigchld, faults>>

(* A whole line, a full buffer, or end of file once nobody has the pipe    *)
(* open for writing.                                                       *)
Fgets ==
  /\ at = "fgets"
  /\ (pipe > 0 /\ cmd.eol) \/ ~ cmd.keeps
  /\ Returned(IF cmd.line = "pair" /\ pipe > 0 THEN "pair" ELSE "unknown", 0)
  /\ UNCHANGED <<kid, past, cmd, sigchld, faults>>

(* The next query.  A command that was not waited for runs on by itself.   *)
NextCall ==
  /\ at \in {"idle", "done"} /\ calls < MaxCalls
  /\ calls' = calls + 1
  /\ lost' = lost + open
  /\ zombies' = zombies + (IF child \in {"running", "zombie"} THEN 1 ELSE 0)
  /\ cmd' \in Commands
  /\ at' = "pipe" /\ open' = 0 /\ result' = "none"
  /\ child' = "none" /\ pipe' = 0 /\ written' = 0
  /\ UNCHANGED <<sigchld, faults>>

-----------------------------------------------------------------------------
(* The command: it writes while the pipe has room, then ends.              *)

Write ==
  /\ child = "running"
  /\ written < cmd.size
  /\ pipe < PipeCap
  /\ pipe' = pipe + 1 /\ written' = written + 1
  /\ UNCHANGED <<child, own, past, cmd, sigchld, faults>>

Exit ==
  /\ child = "running"
  /\ written = cmd.size
  /\ cmd.ending # "never"
  /\ child' = "zombie"
  /\ UNCHANGED <<pipe, written, own, past, cmd, sigchld, faults>>

Caller == Pipe \/ Fork \/ Fdopen \/ Waitpid \/ Abandon \/ Fgets
CmdNext == Caller \/ NextCall \/ Write \/ Exit

(* Both processes are scheduled.                                           *)
CmdFairness == WF_cmdVars(Caller) /\ WF_cmdVars(Write \/ Exit)
CmdSpec == CmdInit /\ [][CmdNext]_cmdVars /\ CmdFairness

-----------------------------------------------------------------------------
(* A weight is reported only if the command ended by itself with status 0  *)
(* and printed two numbers: a command that fails, is killed, or ends after *)
(* printing half of its answer counts as a service that is down.           *)
ResultSound ==
  at = "done" /\ result = "pair" => /\ cmd.ending = "zero"
                                    /\ cmd.line = "pair"
                                    /\ written = cmd.size

(* Over any number of calls the daemon loses two descriptors for each fork *)
(* that fails and one for each fdopen that fails, and no others; every     *)
(* command is waited for, except one whose wait after a failed fdopen was  *)
(* interrupted.                                                            *)
LossesAccounted ==
  at = "done" =>
    /\ lost + open = 2 * faults.fork + faults.fdopen
    /\ zombies + (IF child \in {"running", "zombie"} THEN 1 ELSE 0) <= faults.cut

(* The call returns if the command ends, does not fill the pipe, and       *)
(* leaves no process behind that keeps the pipe open, or has printed a     *)
(* whole line if it does.                                                  *)
Cooperative == cmd.ending # "never" /\ cmd.size <= PipeCap
               /\ (cmd.keeps => cmd.eol)
Returns == at = "pipe" /\ Cooperative ~> at = "done"
=============================================================================
