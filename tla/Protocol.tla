------------------------------ MODULE Protocol ------------------------------
(***************************************************************************)
(* The wire protocol of lbcd (server/protocol.h): versions, operation and  *)
(* status codes, the sizes of the parts of a packet, and the two kinds of  *)
(* packet.  Sizes are in bytes and are the real ones, since request_recv   *)
(* and handle_lb_request compute with them.                                *)
(***************************************************************************)
EXTENDS Integers, Sequences

LBCD_VERSION      == 3
LBCD_MAX_SERVICES == 5
LBCD_MAXMESG      == 2048
LBCD_OP_LBINFO    == 1

LBCD_STATUS_OK         == 1
LBCD_STATUS_ERROR      == 2
LBCD_STATUS_VERSION    == 3
LBCD_STATUS_UNKNOWN_OP == 5

HeaderSize  == 8      \* struct lbcd_header
NameSize    == 32     \* lbcd_name_type
ServiceSize == 8      \* struct lbcd_service
ReplySize   == 36 + (LBCD_MAX_SERVICES + 1) * ServiceSize  \* struct lbcd_reply

(* A service name is "base" or "base:arg"; arg is "" when there is no      *)
(* colon.  Every parser in the code splits at the first colon or compares  *)
(* the whole string, so the pair keeps all that the code can tell apart.   *)
Service == [base : STRING, arg : STRING]
Name(b) == [base |-> b, arg |-> ""]
DefaultService == Name("default")

(* A datagram as it lies in a socket buffer.  size is the number of bytes; *)
(* the header fields mean something only when size >= HeaderSize; names    *)
(* are the whole 32-byte fields that follow the header.                    *)
Datagram ==
  [from : STRING, size : Nat, version : Nat, id : Nat, op : Nat,
   nservices : Nat, names : Seq(Service)]

(* The names a datagram carries are those its bytes have room for.         *)
DatagramOK(d) ==
  /\ d.size <= LBCD_MAXMESG
  /\ d.size >= HeaderSize => Len(d.names) = (d.size - HeaderSize) \div NameSize
  /\ d.size < HeaderSize  => d.names = << >>

Header(to, version, id, op, status) ==
  [to |-> to, version |-> version, id |-> id, op |-> op, status |-> status]
=============================================================================
