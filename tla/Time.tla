-------------------------------- MODULE Time --------------------------------
(***************************************************************************)
(* The arithmetic on the way of a timeout from Timer::Start to epoll_wait: *)
(* microseconds in 64 bits (include/iomgr/time.h) that end as milliseconds *)
(* in an int (io/io_poller.cc).  The ranges are parameters, so that all    *)
(* values of small ones can be checked.                                    *)
(***************************************************************************)
EXTENDS Integers

CONSTANTS
  Int64Half, IntHalf,  \* half the values of int64_t and of int: 2^63, 2^31
  UsPerMs              \* microseconds in a millisecond

ASSUME TimeAssumption ==
  /\ Int64Half \in Nat /\ IntHalf \in 2 .. Int64Half
  /\ UsPerMs \in 1 .. (Int64Half - 1)

\* x in a signed integer type with so many values below zero.  (Overflow of
\* int64_t is undefined; the hardware wraps.)
Signed(x, half) == ((x + half) % (2 * half)) - half

kInfiniteTimeUs == Int64Half - 1

\* operator+ and operator- of Time and Time::Delta.
Plus(t, d)  == Signed(t + d, Int64Half)
Minus(t, d) == Signed(t - d, Int64Half)

FromMilliseconds(ms) == Signed(ms * UsPerMs, Int64Half)

\* Division rounds towards zero.
ToMilliseconds(d) == IF d < 0 THEN -((-d) \div UsPerMs) ELSE d \div UsPerMs

\* TimerInit.
Deadline(now, timeout) == Plus(now, timeout)

\* What TimerCheck returns if min_deadline is not due.
CheckTimeout(min_deadline, now) ==
  IF min_deadline = kInfiniteTimeUs THEN kInfiniteTimeUs ELSE Minus(min_deadline, now)

\* Mutant: what is left of a millisecond counts for nothing.
RunTimeoutShort(timeout) ==
  IF timeout = kInfiniteTimeUs THEN FromMilliseconds(-1)
  ELSE IF timeout < UsPerMs THEN 0 ELSE timeout

\* What IOManager::Run makes of it.
RunTimeout(timeout) ==
  IF timeout = kInfiniteTimeUs THEN FromMilliseconds(-1)
  ELSE IF timeout < 0 THEN 0
  ELSE IF timeout < FromMilliseconds(1) THEN FromMilliseconds(1)
  ELSE timeout

\* IOPoller::Poll: the last parameter of epoll_wait is an int.  Below zero it
\* waits for ever.
EpollTimeout(timeout) ==
  Signed(ToMilliseconds(IF timeout >= 0 THEN timeout ELSE FromMilliseconds(-1)), IntHalf)

-----------------------------------------------------------------------------
(***************************************************************************)
(* A timer started at now, the first that the poll thread has to serve     *)
(* when it comes round at later: epoll_wait gives up within a millisecond  *)
(* of the deadline, before or after, and never at once.  Only if the       *)
(* deadline overflows, or is further away than an int counts milliseconds, *)
(* is the timeout something else.                                          *)
(***************************************************************************)
ServedInTime(now, timeout, later) ==
  LET deadline == now + timeout
      sleep    == EpollTimeout(RunTimeout(CheckTimeout(Deadline(now, timeout), later)))
  IN  /\ deadline < kInfiniteTimeUs
      /\ later < deadline /\ deadline - later < IntHalf * UsPerMs
      => /\ sleep > 0
         /\ later + sleep * UsPerMs \in (deadline - UsPerMs + 1) .. (deadline + UsPerMs - 1)

=============================================================================
