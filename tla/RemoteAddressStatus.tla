------------------------- MODULE RemoteAddressStatus -------------------------
(***************************************************************************)
(* The record RDPBlocker keeps of a remote address, and the Timer it is    *)
(* made of.  A status is a record of the fields of RemoteAddressStatus; a  *)
(* Timer is the second it was last (re)set.  "now" is std::time(0).        *)
(***************************************************************************)
EXTENDS Integers

elapsed(time, now) == now - time

\* A faulty variant, used to validate the properties: the last second of a
\* period counts as a timeout.
TimeoutInclusive(time, value, now) == elapsed(time, now) >= value

is_timeout(time, value, now) == elapsed(time, now) > value

NewStatus(now) ==
  [count |-> 0, expire_time |-> 0, expire_timer |-> now, block_time |-> 0, blocked_timer |-> now]

set_count(st, count) == [st EXCEPT !.count = count]
set_expire_time(st, time, now) == [st EXCEPT !.expire_time = time, !.expire_timer = now]
reset_expire_timer(st, now) == [st EXCEPT !.expire_timer = now]
set_block_time(st, time, now) == [st EXCEPT !.block_time = time, !.blocked_timer = now]

\* A time of 0 or less means never expired, and never blocked.
is_expired(st, now) == st.expire_time > 0 /\ is_timeout(st.expire_timer, st.expire_time, now)
is_blocked(st, now) == st.block_time > 0 /\ ~is_timeout(st.blocked_timer, st.block_time, now)
=============================================================================
