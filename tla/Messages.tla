------------------------------ MODULE Messages ------------------------------
(***************************************************************************)
(* util/messages.c and util/xmalloc.c, which depend on each other: the     *)
(* functions that report a message to a list of handlers, the functions    *)
(* that replace these lists, and the allocators that retry until a handler *)
(* ends the process.  A program makes one call after the other; memory may *)
(* run out and formatting may fail at any time.                            *)
(***************************************************************************)
EXTENDS Integers, Sequences, FiniteSets

CONSTANTS
  HandlerLists,   \* lists of handlers a program sets
  Cleanups,       \* values of message_fatal_cleanup: NoCleanup or a status
  MaxDepth        \* messages about messages that are followed

NoCleanup == -1

ASSUME HandlerListsAssumption ==
  \A l \in HandlerLists : l \in Seq({"stdout", "stderr", "syslog"})
ASSUME CleanupsAssumption == Cleanups \subseteq Nat \cup {NoCleanup}
ASSUME DepthAssumption == MaxDepth \in Nat \ {0}

VARIABLES
  lists,      \* the four lists of handlers in effect
  memory,     \* of each list: "static", "heap" or "freed"
  stack,      \* message functions that have been called, innermost last
  alloc,      \* the allocation in progress, or NoAlloc
  cleanup,    \* message_fatal_cleanup
  retry,      \* whether xmalloc_error_handler returns; xmalloc_fail does not
  errno,      \* the C library's errno
  ended,      \* Running, the exit status, or Undefined behaviour
  report      \* history: the message the last call has reported

messageVars == <<lists, memory, stack, alloc, cleanup, retry, errno, ended, report>>

Running   == -1
Undefined == -2
ENOMEM    == "ENOMEM"

Lists == {"debug", "notice", "warn", "die"}
MessageFunctions == Lists \cup {"sysnotice", "syswarn", "sysdie"}
list_of == [f \in MessageFunctions |-> CASE f = "sysnotice" -> "notice" [] f = "syswarn" -> "warn"
                                  [] f = "sysdie" -> "die" [] OTHER -> f]
Sys(f) == f \in {"sysnotice", "syswarn", "sysdie"}
Fatal(f) == f \in {"die", "sysdie"}

(* The static lists; debug messages have none.                             *)
DefaultHandlers == [l \in Lists |-> CASE l = "debug" -> << >> [] l = "notice" -> <<"stdout">>
                                      [] OTHER -> <<"stderr">>]

NoAlloc  == [list |-> "none", was |-> "none", want |-> << >>, size |-> "none"]
NoReport == [fn |-> "none", error |-> "0", entry |-> "0", next |-> 1,
             sent |-> << >>, ok |-> FALSE]

MessagesInit ==
  /\ lists = DefaultHandlers /\ memory = [l \in Lists |-> "static"]
  /\ stack = << >> /\ alloc = NoAlloc
  /\ cleanup \in Cleanups /\ retry \in BOOLEAN
  /\ errno = "0" /\ ended = Running /\ report = NoReport

Idle == ended = Running /\ stack = << >> /\ alloc = NoAlloc

(* The argument of exit: what message_fatal_cleanup returns, or 1.         *)
ExitStatus == IF cleanup = NoCleanup THEN 1 ELSE cleanup

-----------------------------------------------------------------------------
(* The message functions.                                                  *)

Top == stack[Len(stack)]
Below == SubSeq(stack, 1, Len(stack) - 1)

(* What is saved in error when errno is e.                                 *)
Saved(f, e) == IF Sys(f) THEN e ELSE "0"

(* errno is saved on entry, before the length is computed.                 *)
Entered(f, e) ==
  [fn |-> f, error |-> Saved(f, e), entry |-> e, next |-> 0,
   sent |-> << >>, ok |-> TRUE]

(* A call while errno is e.                                                *)
Call(f, e) == errno' = e /\ stack' = Append(stack, Entered(f, e))

Say(f, e) ==
  /\ Idle /\ Call(f, e)
  /\ report' = NoReport
  /\ UNCHANGED <<lists, memory, alloc, cleanup, retry, ended>>

(* A function of the C library leaves errno alone or sets it.              *)
MaySetErrno == errno' \in {errno, ENOMEM}

Formatting == ended = Running /\ stack # << >> /\ Top.next = 0

(* Mutant: errno is saved after the length was computed.                   *)
Length_late ==
  /\ Formatting
  /\ MaySetErrno
  /\ stack' = [stack EXCEPT ![Len(stack)].next = 1,
                            ![Len(stack)].error = Saved(Top.fn, errno')]
  /\ UNCHANGED <<lists, memory, alloc, cleanup, retry, ended, report>>

(* The innermost function comes to its first handler.                      *)
Started == [stack EXCEPT ![Len(stack)].next = 1]

(* vsnprintf computes the length; it may change errno.                     *)
Length ==
  /\ Formatting
  /\ MaySetErrno
  /\ stack' = Started
  /\ UNCHANGED <<lists, memory, alloc, cleanup, retry, ended, report>>

(* Mutant: die returns like the others if it cannot compute the length.    *)
NoLength_return ==
  /\ Formatting
  /\ MaySetErrno
  /\ stack' = Below /\ report' = [Top EXCEPT !.ok = FALSE]
  /\ UNCHANGED <<lists, memory, alloc, cleanup, retry, ended>>

(* The length could not be computed: nothing is reported, and a fatal      *)
(* function exits all the same.                                            *)
NoLength ==
  /\ Formatting
  /\ MaySetErrno
  /\ stack' = Below /\ report' = [Top EXCEPT !.ok = FALSE]
  /\ ended' = IF Fatal(Top.fn) THEN ExitStatus ELSE Running
  /\ UNCHANGED <<lists, memory, alloc, cleanup, retry>>

List == list_of[Top.fn]
AtHandler(h) == /\ ended = Running /\ stack # << >> /\ memory[List] # "freed"
                /\ Top.next \in 1 .. Len(lists[List])
                /\ lists[List][Top.next] = h

(* The innermost function goes on to its next handler; reported is what    *)
(* was sent to this one, if anything was.                                  *)
Advance(reported) ==
  [stack EXCEPT ![Len(stack)].next = @ + 1,
                ![Len(stack)].sent = @ \o reported,
                ![Len(stack)].ok = @ /\ reported # << >>]

(* message_log_stdout, message_log_stderr, and message_log_syslog when its *)
(* buffer could be allocated and filled.  Each may change errno.           *)
Log(h) ==
  /\ AtHandler(h)
  /\ MaySetErrno
  /\ stack' = Advance(<<[to |-> h, error |-> Top.error]>>)
  /\ UNCHANGED <<lists, memory, alloc, cleanup, retry, ended, report>>

(* The buffer cannot be allocated: the process exits, whatever the message.*)
SyslogNoMemory ==
  /\ AtHandler("syslog")
  /\ errno' = ENOMEM /\ ended' = ExitStatus
  /\ report' = [Top EXCEPT !.ok = FALSE]
  /\ UNCHANGED <<lists, memory, stack, alloc, cleanup, retry>>

(* The buffer cannot be filled: warn is called, before the next handler.   *)
SyslogNoFormat ==
  /\ AtHandler("syslog") /\ Len(stack) < MaxDepth
  /\ MaySetErrno
  /\ stack' = Append(Advance(<< >>), Entered("warn", errno'))
  /\ UNCHANGED <<lists, memory, alloc, cleanup, retry, ended, report>>

(* The list has been freed and is walked all the same.                     *)
UseFreed ==
  /\ ended = Running /\ stack # << >> /\ Top.next > 0 /\ memory[List] = "freed"
  /\ ended' = Undefined
  /\ UNCHANGED <<lists, memory, stack, alloc, cleanup, retry, errno, report>>

(* The list is at its end, or debug has none.                              *)
Finish ==
  /\ ended = Running /\ stack # << >> /\ memory[List] # "freed"
  /\ Top.next > Len(lists[List])
  /\ stack' = Below /\ report' = Top
  /\ ended' = IF Fatal(Top.fn) THEN ExitStatus ELSE Running
  /\ UNCHANGED <<lists, memory, alloc, cleanup, retry, errno>>

-----------------------------------------------------------------------------
(* message_handlers frees the old list, unless it is one of the static     *)
(* ones, and only then allocates the new one with xcalloc.                 *)

Freed(m) == IF m = "heap" THEN "freed" ELSE m

message_handlers(l, funcs) ==
  /\ Idle
  /\ memory' = [memory EXCEPT ![l] = Freed(@)]
  /\ alloc' = [list |-> l, was |-> memory[l], want |-> funcs, size |-> "some"]
  /\ report' = NoReport
  /\ UNCHANGED <<lists, stack, cleanup, retry, errno, ended>>

message_handlers_reset ==
  /\ Idle
  /\ memory' = [l \in Lists |-> "static"] /\ lists' = DefaultHandlers
  /\ report' = NoReport
  /\ UNCHANGED <<stack, alloc, cleanup, retry, errno, ended>>

(* Any other call of an allocator: xmalloc, xcalloc, xrealloc,             *)
(* xreallocarray, xstrdup, xstrndup, xvasprintf or xasprintf.  The size    *)
(* may be "zero", or "never": too large to be computed, or of a format     *)
(* that is wrong.                                                          *)
Allocate(size) ==
  /\ Idle
  /\ alloc' = [list |-> "other", was |-> "none", want |-> << >>, size |-> size]
  /\ report' = NoReport
  /\ UNCHANGED <<lists, memory, stack, cleanup, retry, errno, ended>>

Allocating == ended = Running /\ stack = << >> /\ alloc # NoAlloc

Allocated ==
  /\ Allocating /\ alloc.size # "never"
  /\ IF alloc.list = "other" THEN UNCHANGED <<lists, memory>>
     ELSE /\ lists' = [lists EXCEPT ![alloc.list] = alloc.want]
          /\ memory' = [memory EXCEPT ![alloc.list] = "heap"]
  /\ alloc' = NoAlloc
  /\ UNCHANGED <<stack, cleanup, retry, errno, ended, report>>

(* xrealloc and xreallocarray return NULL if nothing was asked for.        *)
AllocatedNothing ==
  /\ Allocating /\ alloc.size = "zero"
  /\ alloc' = NoAlloc
  /\ UNCHANGED <<lists, memory, stack, cleanup, retry, errno, ended, report>>

(* It fails, and the handler is called: xmalloc_fail calls sysdie, another *)
(* handler may return, and the loop tries again.                           *)
AllocationFails ==
  /\ Allocating
  /\ IF retry THEN errno' = ENOMEM /\ UNCHANGED stack ELSE Call("sysdie", ENOMEM)
  /\ UNCHANGED <<lists, memory, alloc, cleanup, retry, ended, report>>

MessageSteps == \/ Length \/ NoLength \/ SyslogNoMemory \/ SyslogNoFormat \/ UseFreed \/ Finish
                \/ \E h \in {"stdout", "stderr", "syslog"} : Log(h)

MessagesNext ==
  \/ MessageSteps \/ Allocated \/ AllocatedNothing \/ AllocationFails \/ message_handlers_reset
  \/ \E f \in MessageFunctions, e \in {"0", "error"} : Say(f, e)
  \/ \E l \in Lists, funcs \in HandlerLists : message_handlers(l, funcs)
  \/ \E size \in {"some", "zero", "never"} : Allocate(size)

-----------------------------------------------------------------------------
(* A message goes to every handler of its list once, in order, with the    *)
(* errno its caller had or none, unless formatting or memory fails.  The   *)
(* list is not freed memory: only replacing a list for the second time     *)
(* without memory for it can make the fatal message walk the old one, and  *)
(* lbcd replaces each list once.                                           *)
Delivered ==
  /\ report.ok => LET all == lists[list_of[report.fn]] IN
                  report.sent = [k \in DOMAIN all |->
                    [to |-> all[k], error |-> Saved(report.fn, report.entry)]]
  /\ ended = Undefined => alloc.was = "heap"

(* No step returns from die or sysdie: the function stays on the stack, or *)
(* the process ends with the status of the cleanup function.               *)
NoReturn ==
  [][\A k \in DOMAIN stack : Fatal(stack[k].fn) =>
       \/ k \in DOMAIN stack' /\ stack'[k].fn = stack[k].fn
       \/ ended' = ExitStatus]_messageVars

(* die, sysdie and an allocation that fails for good end the process, with *)
(* the status of the cleanup function: no step returns from them, and they *)
(* do not go on for ever.                                                  *)
Dying == \E k \in DOMAIN stack : Fatal(stack[k].fn)
FatalExits == NoReturn /\ (Dying ~> ended # Running)
=============================================================================
