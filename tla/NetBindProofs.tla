---------------------------- MODULE NetBindProofs ---------------------------
(***************************************************************************)
(* Proofs about the creation of the listening sockets, for every list of   *)
(* addresses, any number of sockets from systemd and every pattern of      *)
(* failing calls: the daemon serves on exactly the sockets it has open,    *)
(* within the array it allocated, and its commands inherit none of them.   *)
(***************************************************************************)
EXTENDS NetBind, FiniteSetTheorems, TLAPS

Listed == ToSet(fds)
Passed == SD_LISTEN_FDS_START .. (SD_LISTEN_FDS_START + given - 1)
Loop   == {"socket", "bind", "store", "exec"}

(* The values the variables range over.                                    *)
TypeOK ==
  /\ given \in Nat /\ all \in BOOLEAN
  /\ addrs \in Seq(Address) /\ i \in 1 .. Len(addrs) + 1
  /\ pc \in {"start", "ready", "died"} \cup Loop
  /\ pc \in {"bind", "store", "exec"} => i <= Len(addrs)
  /\ size \in Nat /\ fds \in Seq(Nat) /\ sock \in Nat /\ next \in Nat \ {0}

(* What the addresses of the two origins have in common is not enough:     *)
(* those of -b are all tried, those of getaddrinfo all parse.              *)
Origin ==
  /\ ~ all => Len(addrs) > 0 /\ \A k \in DOMAIN addrs : addrs[k].family # "unix"
  /\ all => \A k \in DOMAIN addrs : addrs[k].valid

(* Before the choice between systemd's sockets and the daemon's own.       *)
Started ==
  pc = "start" =>
    /\ opened = Passed /\ fds = << >>
    /\ i = 1 /\ next = SD_LISTEN_FDS_START + given

(* A socket that was made and is not yet in the array.                     *)
Pending == pc \in {"bind", "store"} /\ sock # 0

(* The daemon's own sockets: no descriptor is in the array twice, those in *)
(* the array are open, and at most the one being made is open besides.  An *)
(* address of -b that fails leaves the loop for good.                      *)
Made ==
  /\ pc \in Loop \cup {"start"} => \A f \in opened : f \in Nat \ {0} /\ f < next
  /\ pc \in Loop =>
       /\ given = 0
       /\ IsFiniteSet(Listed) /\ Cardinality(Listed) = Len(fds)
       /\ Pending => opened = Listed \cup {sock} /\ sock \notin Listed
       /\ (pc \in {"socket", "exec"} \/ (pc = "store" /\ sock = 0 /\ all))
            => opened = Listed
       /\ pc = "bind" => sock # 0
       /\ pc = "exec" => ~ all /\ sock \in Listed

(* The array: two more entries whenever it is full, or one for each -b.    *)
Room ==
  /\ Len(fds) <= size
  /\ pc \in Loop /\ ~ all =>
       size = Len(addrs) /\ Len(fds) = IF pc = "exec" THEN i ELSE i - 1

(* The close-on-exec flag follows each -b socket into the array.           *)
Marked ==
  /\ pc \in {"socket", "bind", "store"} /\ ~ all => Listed \subseteq cloexec
  /\ pc = "exec" => Listed \subseteq cloexec \cup {sock}

IInv == /\ TypeOK /\ Origin /\ Started /\ Made /\ Room /\ Marked
        /\ ListensOnAll /\ NotInherited

(* The elements of a sequence that one more was appended to.               *)
LEMMA ToSetAppend ==
  ASSUME NEW s \in Seq(Nat), NEW x \in Nat
  PROVE  ToSet(Append(s, x)) = ToSet(s) \cup {x}
PROOF
<1>1. /\ DOMAIN s = 1 .. Len(s) /\ Len(s) \in Nat
      /\ DOMAIN Append(s, x) = 1 .. (Len(s) + 1)
      /\ \A k \in 1 .. Len(s) : Append(s, x)[k] = s[k]
      /\ Append(s, x)[Len(s) + 1] = x
  OBVIOUS
<1>2. \A k \in 1 .. (Len(s) + 1) : k \in 1 .. Len(s) \/ k = Len(s) + 1
  BY <1>1
<1>3. 1 .. Len(s) \subseteq 1 .. (Len(s) + 1) /\ Len(s) + 1 \in 1 .. (Len(s) + 1)
  BY <1>1
<1>. QED
  BY <1>1, <1>2, <1>3 DEF ToSet

(* Sequences of restricted elements are sequences.                         *)
LEMMA SeqRestricted ==
  ASSUME NEW S, NEW T, T \subseteq S, NEW s \in Seq(T)
  PROVE  s \in Seq(S) /\ \A k \in DOMAIN s : s[k] \in T
PROOF
  OBVIOUS

(* The sockets systemd passes are as many as it says.                      *)
LEMMA PassedCount ==
  ASSUME given \in Nat
  PROVE  IsFiniteSet(Passed) /\ Cardinality(Passed) = given
PROOF
<1>1. 3 \in Int /\ 3 + given - 1 \in Int
  OBVIOUS
<1>2. /\ IsFiniteSet(3 .. (3 + given - 1))
      /\ Cardinality(3 .. (3 + given - 1))
           = IF 3 > 3 + given - 1 THEN 0 ELSE (3 + given - 1) - 3 + 1
  BY <1>1, FS_Interval
<1>. QED
  BY <1>2 DEF Passed, SD_LISTEN_FDS_START

(* Before the start nothing is listed and nothing is marked.               *)
LEMMA InitIInv == Init => IInv
PROOF
<1>. SUFFICES ASSUME Init PROVE IInv
  OBVIOUS
<1>1. given \in Nat
  BY SystemdAssumption DEF Init
<1>2. addrs \in Seq(Address) /\ Origin
  <2>1. CASE all = FALSE /\ addrs \in BindAddrs \ {<< >>}
    <3>. DEFINE T == {a \in Address : a.family # "unix"}
    <3>1. addrs \in Seq(T) /\ T \subseteq Address
      BY <2>1, BindAddrsAssumption
    <3>2. addrs \in Seq(Address) /\ \A k \in DOMAIN addrs : addrs[k] \in T
      BY <3>1, SeqRestricted
    <3>3. Len(addrs) > 0
      BY <2>1, <3>2
    <3>. QED
      BY <2>1, <3>2, <3>3 DEF Origin
  <2>2. CASE all = TRUE /\ addrs \in LocalAddrs
    <3>. DEFINE T == {a \in Address : a.valid}
    <3>1. addrs \in Seq(T) /\ T \subseteq Address
      BY <2>2, LocalAddrsAssumption
    <3>2. addrs \in Seq(Address) /\ \A k \in DOMAIN addrs : addrs[k] \in T
      BY <3>1, SeqRestricted
    <3>. QED
      BY <2>2, <3>2 DEF Origin
  <2>. QED
    BY <2>1, <2>2 DEF Init
<1>3. \A f \in opened : f \in Nat \ {0} /\ f < next
  BY <1>1 DEF Init, SD_LISTEN_FDS_START
<1>4. all \in BOOLEAN
  BY DEF Init
<1>5. TypeOK
  BY <1>1, <1>2, <1>4 DEF Init, TypeOK, Loop, SD_LISTEN_FDS_START
<1>6. Started /\ Room /\ ListensOnAll
  BY DEF Init, Started, Passed, Room, Loop, ListensOnAll
<1>. QED
  BY <1>2, <1>3, <1>5, <1>6 DEF Init, IInv, Made, Marked, Loop, NotInherited

(* The sockets of systemd are taken as they are; otherwise the loop starts *)
(* with an empty array.                                                    *)
LEMMA StartStep == ASSUME IInv, Start PROVE IInv'
PROOF
<1>. USE DEF IInv, TypeOK, Origin, Started, Loop
<1>0. pc = "start" /\ given \in Nat
  BY DEF Start
<1>1. CASE given > 0
  <2>1. /\ pc' = "ready" /\ fds' = [k \in 1 .. given |-> SD_LISTEN_FDS_START + k - 1]
        /\ size' = given /\ cloexec' = opened /\ opened' = opened
        /\ UNCHANGED <<given, addrs, all, i, sock, next>>
    BY <1>1 DEF Start
  <2>2. fds' \in Seq(Nat) /\ Len(fds') = given
    BY <1>0, <2>1 DEF SD_LISTEN_FDS_START
  <2>3. ToSet(fds') = Passed
    <3>1. \A f \in Passed : f - 2 \in 1 .. given /\ fds'[f - 2] = f
      BY <1>0, <2>1 DEF Passed, SD_LISTEN_FDS_START
    <3>2. \A k \in 1 .. given : fds'[k] \in Passed
      BY <1>0, <2>1 DEF Passed, SD_LISTEN_FDS_START
    <3>3. DOMAIN fds' = 1 .. given
      BY <2>1
    <3>. QED
      BY <3>1, <3>2, <3>3 DEF ToSet
  <2>4. Cardinality(opened') = given /\ opened' = Passed
    BY <1>0, <2>1, PassedCount
  <2>5. ListensOnAll' /\ NotInherited'
    BY <1>0, <1>1, <2>1, <2>2, <2>3, <2>4 DEF ListensOnAll, NotInherited
  <2>. QED
    BY <1>0, <2>1, <2>2, <2>5 DEF Made, Room, Marked
<1>2. CASE given = 0
  <2>1. /\ pc' = "socket" /\ size' = (IF all THEN 2 ELSE Len(addrs))
        /\ UNCHANGED <<given, addrs, all, i, fds, sock, next, opened, cloexec>>
    BY <1>2 DEF Start
  <2>2. opened = {} /\ Listed' = {} /\ Len(fds) = 0
    BY <1>0, <1>2, <2>1 DEF Passed, SD_LISTEN_FDS_START, Listed, ToSet
  <2>3. Made'
    BY <1>2, <2>1, <2>2, FS_EmptySet DEF Made, Pending
  <2>. QED
    BY <1>0, <1>2, <2>1, <2>2, <2>3 DEF Room, Marked, ListensOnAll, NotInherited
<1>. QED
  BY <1>0, <1>1, <1>2

(* A socket is made for the address, or the kernel refuses it.             *)
LEMMA SocketStep == ASSUME IInv, Socket PROVE IInv'
PROOF
<1>. USE DEF IInv, TypeOK, Origin, Started, Made, Pending, Room, Marked, Loop,
             Listed
<1>0. /\ pc = "socket" /\ i <= Len(addrs) /\ opened = Listed
      /\ UNCHANGED <<given, addrs, all, size, fds, cloexec>>
  BY DEF Socket
<1>1. CASE addrs[i].family = "unix"
  BY <1>0, <1>1 DEF Socket, ListensOnAll, NotInherited
<1>2. CASE addrs[i].family # "unix" /\ sock' = 0 /\ pc' = "store"
  BY <1>0, <1>2 DEF Socket, ListensOnAll, NotInherited
<1>3. CASE addrs[i].family # "unix" /\ pc' = "bind"
  <2>1. /\ sock' = next /\ next' = next + 1 /\ opened' = opened \cup {next}
        /\ i' = i
    BY <1>0, <1>3 DEF Socket
  <2>2. next \notin opened
    BY <1>0
  <2>. QED
    BY <1>0, <1>3, <2>1, <2>2 DEF ListensOnAll, NotInherited
<1>. QED
  BY <1>0, <1>1, <1>2, <1>3 DEF Socket

(* An address that does not parse or cannot be bound costs its socket.     *)
LEMMA BindStep == ASSUME IInv, Bind PROVE IInv'
PROOF
<1>. USE DEF IInv, TypeOK, Loop
<1>0. /\ pc = "bind" /\ pc' = "store" /\ i <= Len(addrs) /\ sock # 0
      /\ opened = Listed \cup {sock} /\ sock \notin Listed
      /\ UNCHANGED <<given, addrs, all, i, size, fds, next, cloexec>>
      /\ Listed' = Listed
  BY DEF Bind, Made, Pending, Listed
<1>1. /\ sock' \in {0, sock}
      /\ sock' = sock => opened' = opened
      /\ sock' = 0 /\ all => opened' = Listed
      /\ opened' \subseteq opened
  <2>1. all => addrs[i].valid
    BY <1>0 DEF Origin
  <2>. QED
    BY <1>0, <2>1 DEF Bind
<1>2. TypeOK' /\ Origin' /\ Started' /\ ListensOnAll' /\ NotInherited'
  BY <1>0, <1>1 DEF Origin, Started, ListensOnAll, NotInherited
<1>3. Made'
  BY <1>0, <1>1 DEF Made, Pending
<1>4. Room' /\ Marked'
  BY <1>0 DEF Room, Marked
<1>. QED
  BY <1>2, <1>3, <1>4

(* The array grows before it overflows.                                    *)
LEMMA StoreStep == ASSUME IInv, Store PROVE IInv'
PROOF
<1>. USE DEF IInv, TypeOK, Origin, Started, Loop
<1>0. /\ pc = "store" /\ i <= Len(addrs) /\ Len(fds) \in Nat
      /\ UNCHANGED <<given, addrs, all, sock, next, opened, cloexec>>
  BY DEF Store
<1>1. CASE sock = 0 /\ ~ all
  BY <1>0, <1>1 DEF Store, Made, Room, Marked, ListensOnAll, NotInherited
<1>2. CASE sock = 0 /\ all
  BY <1>0, <1>2 DEF Store, Made, Pending, Listed, Room, Marked, ListensOnAll,
                    NotInherited
<1>3. CASE sock # 0
  <2>0. fds' = Append(fds, sock) /\ fds \in Seq(Nat) /\ sock \in Nat
    BY <1>0, <1>3 DEF Store
  <2>1. fds' \in Seq(Nat) /\ Len(fds') = Len(fds) + 1
    BY <2>0
  <2>2. Listed' = Listed \cup {sock} /\ sock \notin Listed
    BY <1>0, <1>3, <2>0, ToSetAppend DEF Made, Pending, Listed
  <2>3. IsFiniteSet(Listed') /\ Cardinality(Listed') = Len(fds')
    <3>1. IsFiniteSet(Listed) /\ Cardinality(Listed) = Len(fds)
      BY <1>0 DEF Made
    <3>2. /\ IsFiniteSet(Listed \cup {sock})
          /\ Cardinality(Listed \cup {sock}) = Cardinality(Listed) + 1
      BY <2>2, <3>1, FS_AddElement
    <3>. QED
      BY <2>1, <2>2, <3>1, <3>2
  <2>4. opened' = Listed'
    BY <1>0, <1>3, <2>2 DEF Made, Pending
  <2>5. given = 0 /\ \A f \in opened : f \in Nat \ {0} /\ f < next
    BY <1>0 DEF Made
  <2>6. CASE all
    <3>1. pc' = "socket" /\ i' = i + 1 /\ size' = Grow(Len(fds))
      BY <1>0, <1>3, <2>6 DEF Store
    <3>2. size' \in Nat /\ Len(fds') <= size'
      BY <1>0, <2>1, <3>1 DEF Grow, Room
    <3>. QED
      BY <1>0, <2>1, <2>3, <2>4, <2>5, <2>6, <3>1, <3>2
      DEF Made, Pending, Room, Marked, ListensOnAll, NotInherited
  <2>7. CASE ~ all
    <3>1. pc' = "exec" /\ i' = i /\ size' = size
      BY <1>0, <1>3, <2>7 DEF Store
    <3>2. Len(fds') = i' /\ size' = Len(addrs') /\ Len(fds') <= size'
      BY <1>0, <2>1, <2>7, <3>1 DEF Room
    <3>3. Listed \subseteq cloexec
      BY <1>0, <2>7 DEF Marked
    <3>. QED
      BY <1>0, <2>1, <2>2, <2>3, <2>4, <2>5, <2>7, <3>1, <3>2, <3>3
      DEF Made, Pending, Room, Marked, ListensOnAll, NotInherited
  <2>. QED
    BY <2>6, <2>7
<1>. QED
  BY <1>1, <1>2, <1>3

(* The socket just stored is marked close-on-exec.                         *)
LEMMA MarkStep == ASSUME IInv, SetCloseExec PROVE IInv'
PROOF
  BY DEF SetCloseExec, IInv, TypeOK, Origin, Started, Made, Pending, Room,
         Marked, Loop, Listed, ListensOnAll, NotInherited

(* bind_sockets returns, or finds that it has bound nothing and dies.      *)
LEMMA FinishStep == ASSUME IInv, Finish PROVE IInv'
PROOF
  BY DEF Finish, IInv, TypeOK, Origin, Started, Made, Pending, Room,
         Marked, Loop, Listed, ListensOnAll, NotInherited

(* The invariant holds in every state of every behaviour.                  *)
THEOREM Invariant == Spec => []IInv
PROOF
<1>1. ASSUME IInv, sd_listen_fds_fails PROVE IInv'
  BY <1>1
  DEF sd_listen_fds_fails, IInv, TypeOK, Origin, Started, Made, Room, Marked,
      Loop, ListensOnAll, NotInherited
<1>2. ASSUME IInv, UNCHANGED vars PROVE IInv'
  BY <1>2
  DEF vars, IInv, TypeOK, Origin, Started, Passed, Made, Pending, Room, Marked,
      Loop, Listed, ListensOnAll, NotInherited
<1>3. ASSUME IInv, [Next]_vars PROVE IInv'
  BY <1>1, <1>2, <1>3, StartStep, SocketStep, BindStep, StoreStep, MarkStep,
     FinishStep DEF Next
<1>. QED
  BY <1>3, InitIInv, PTL DEF Spec

(* bind_sockets returns with exactly the open sockets in its array, each   *)
(* once, and within the array's bounds; with -b there is one for each.     *)
THEOREM ListensOnAllOfThem == Spec => []ListensOnAll
PROOF
<1>1. IInv => ListensOnAll
  BY DEF IInv
<1>. QED
  BY <1>1, Invariant, PTL

(* Sockets of systemd and of -b are closed in the weight command.          *)
THEOREM NoneInherited == Spec => []NotInherited
PROOF
<1>1. IInv => NotInherited
  BY DEF IInv
<1>. QED
  BY <1>1, Invariant, PTL
=============================================================================
