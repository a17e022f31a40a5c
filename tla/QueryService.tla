---------------------------- MODULE QueryService ----------------------------
(***************************************************************************)
(* What the daemon promises its clients, without how it does it.  Every    *)
(* datagram taken from a socket gets exactly the treatment Verdict assigns *)
(* to it, at most one packet is sent for it, to the address it came from   *)
(* and with its id and operation, and one request is served at a time.     *)
(* The server may stop at any moment, losing what it has not answered.     *)
(***************************************************************************)
EXTENDS Protocol

CONSTANTS NSocks, Datagrams
VARIABLES cfg, inbox, serving, out

NoRequest == [from |-> "none"]
NoReply   == [to |-> "none"]
Socks     == 1 .. NSocks

(* The services a client may ask about: the default one, and those listed  *)
(* on the command line, but never the external command.                    *)
Permitted == {DefaultService} \cup {s \in cfg.services : s.base # "cmd"}

(* A version 3 request lists at most five services and is just as long as  *)
(* its list; any other request is a bare header.                           *)
WellFormed(d) ==
  IF d.version = 3
  THEN d.nservices \in 0 .. 5 /\ d.size = 8 + 32 * d.nservices
  ELSE d.size = 8

Asked(d) == IF d.version = 3 THEN d.names ELSE << >>

Verdict(d) ==
  CASE ~ WellFormed(d) -> "silence"
    [] WellFormed(d) /\ d.version \notin {2, 3} -> "version"
    [] WellFormed(d) /\ d.version \in {2, 3} ->
         IF \A i \in DOMAIN Asked(d) : Asked(d)[i] \in Permitted
         THEN "serve" ELSE "error"

Refusal(d, status) == Header(d.from, LBCD_VERSION, d.id, d.op, status)

(* The header every answer to request r carries, and a full answer: one    *)
(* weight for the host and one for each service, in a packet of that size. *)
AnswersTo(p, r) ==
  IF r.operation # LBCD_OP_LBINFO
  THEN p = Header(r.from, LBCD_VERSION, r.id, r.operation, LBCD_STATUS_UNKNOWN_OP)
  ELSE /\ DOMAIN p = {"to", "version", "id", "op", "status", "size", "lb"}
       /\ [to |-> p.to, version |-> p.version, id |-> p.id, op |-> p.op,
           status |-> p.status]
            = Header(r.from, r.protocol, r.id, r.operation, LBCD_STATUS_OK)
       /\ Len(p.lb.weights) = Len(r.services) + 1
       /\ p.size = 36 + 8 * Len(p.lb.weights)

Init == inbox = [i \in Socks |-> << >>] /\ serving = NoRequest /\ out = NoReply

Arrive == /\ \E i \in Socks, d \in Datagrams :
               inbox' = [inbox EXCEPT ![i] = Append(@, d)]
          /\ UNCHANGED <<cfg, serving, out>>

Take == /\ serving = NoRequest
        /\ \E i \in Socks :
             /\ inbox[i] # << >>
             /\ inbox' = [inbox EXCEPT ![i] = Tail(@)]
             /\ LET d == Head(inbox[i]) IN
                \/ Verdict(d) = "silence" /\ UNCHANGED <<serving, out>>
                \/ /\ Verdict(d) = "version"
                   /\ out' = Refusal(d, LBCD_STATUS_VERSION)
                   /\ UNCHANGED serving
                \/ /\ Verdict(d) = "error"
                   /\ out' = Refusal(d, LBCD_STATUS_ERROR)
                   /\ UNCHANGED serving
                \/ /\ Verdict(d) = "serve"
                   /\ serving' = [from |-> d.from, protocol |-> d.version,
                                  id |-> d.id, operation |-> d.op,
                                  services |-> Asked(d)]
                   /\ UNCHANGED out
        /\ UNCHANGED cfg

Answer == /\ serving # NoRequest
          /\ AnswersTo(out', serving)
          /\ serving' = NoRequest
          /\ UNCHANGED <<cfg, inbox>>

(* The network has taken the packet.                                       *)
Sent == out' = NoReply /\ UNCHANGED <<cfg, inbox, serving>>

(* A clean stop waits for the request being served and loses only what was *)
(* never taken; a crash also loses that request.                           *)
Stop == /\ inbox' = [i \in Socks |-> << >>]
        /\ \/ serving = NoRequest /\ UNCHANGED <<serving, out>>
           \/ serving' = NoRequest /\ out' = NoReply
        /\ UNCHANGED cfg

Next == Arrive \/ Take \/ Answer \/ Sent \/ Stop

Spec == Init /\ [][Next]_<<cfg, inbox, serving, out>>
=============================================================================
