------------------------------ MODULE MCProbes ------------------------------
(* Commands, services and NTP servers for the model checker.               *)
EXTENDS Probes

Cmd(size, line, eol, ending, keeps) ==
  [size |-> size, line |-> line, eol |-> eol, ending |-> ending, keeps |-> keeps]

Cooperating == {Cmd(2, "pair", TRUE, "zero", k) : k \in BOOLEAN} \cup
  {Cmd(1, "pair", FALSE, "zero", FALSE), Cmd(1, "partial", TRUE, "zero", FALSE),
   Cmd(0, "none", FALSE, "zero", FALSE), Cmd(2, "pair", TRUE, "nonzero", FALSE),
   Cmd(1, "pair", TRUE, "signal", FALSE)}

(* It never ends, or a background process keeps the pipe open after less   *)
(* than a line.                                                            *)
Hanging == {Cmd(0, "none", FALSE, "never", FALSE), Cmd(0, "none", FALSE, "zero", TRUE),
            Cmd(1, "pair", FALSE, "zero", TRUE)}

Verbose == {Cmd(3, "pair", TRUE, "zero", FALSE)}

MCCommands == Cooperating \cup Hanging \cup Verbose

Probe(kind, port) == [kind |-> kind, port |-> port]
MCServices == {lbcd_ftp_weight, lbcd_nntp_weight, lbcd_pop_weight,
               lbcd_smtp_weight, lbcd_imap_weight,
               Probe("tcp", 25), Probe("http", 0), Probe("http", 8080)}
MCAddresses == {<<a>> : a \in {"accept", "refuse", "silent"}} \cup
               {<<"refuse", "accept">>, <<"silent", "accept">>,
                <<"silent", "refuse">>}
MCAnswers == {<< >>, <<"ok", "ok", "ok">>, <<"other", "ok">>, <<"ok", "other">>,
              <<"redirect", "redirect">>}

(* Answers of one to five packets, the last longer than MAXPACKETS, and    *)
(* one packet of each kind that is not data.                               *)
MCResponses == {<<0>>, <<2, 1>>, <<6, 6, 3>>, <<6, 0, 6, 1>>, <<1, 2, 3, 4, 5>>}
Stray(f, c, e) == [format |-> f, codes |-> c, err |-> e, seq |-> 0, more |-> FALSE,
                   items |-> 9]
MCJunk == {Stray(FALSE, TRUE, 0), Stray(TRUE, FALSE, 0), Stray(TRUE, TRUE, 4)}
=============================================================================
