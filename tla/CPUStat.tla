-------------------------------- MODULE CPUStat --------------------------------
(***************************************************************************)
(* What the CPU logger makes of the cpu lines of /proc/stat                *)
(* (linux_sysmetrics.go): parseCPUTimes and computeBreakdownPct.  A        *)
(* percentage is kept as the ticks it stands for, out of `of'; a missing   *)
(* result is the empty set.  The counters are uint64 and the sum of ten of *)
(* them does not overflow in practice.                                     *)
(***************************************************************************)
EXTENDS Integers, Sequences

Times == [user : Nat, nice : Nat, system : Nat, idle : Nat, iowait : Nat,
          irq : Nat, softirq : Nat, steal : Nat, guest : Nat, guestNice : Nat]

\* vals are the numbers of a cpu line; some kernels omit trailing ones.
parseCPUTimes(vals) ==
  LET get(i) == IF i <= Len(vals) THEN vals[i] ELSE 0
  IN  IF Len(vals) < 4 THEN {}
      ELSE {[user |-> get(1), nice |-> get(2), system |-> get(3),
             idle |-> get(4), iowait |-> get(5), irq |-> get(6),
             softirq |-> get(7), steal |-> get(8), guest |-> get(9),
             guestNice |-> get(10)]}

total(t) == t.user + t.nice + t.system + t.idle + t.iowait + t.irq + t.softirq
              + t.steal + t.guest + t.guestNice

d(aPrev, aCur) == IF aCur <= aPrev THEN 0 ELSE aCur - aPrev

computeBreakdownPct(prev, cur) ==
  LET dTotal  == total(cur) - total(prev)
      idlePct == d(prev.idle, cur.idle)
  IN  IF total(cur) <= total(prev) THEN {}
      ELSE {[of         |-> dTotal,
             usageTotal |-> IF dTotal >= idlePct THEN dTotal - idlePct ELSE 0,
             idle       |-> idlePct,
             user       |-> d(prev.user + prev.nice, cur.user + cur.nice),
             system     |-> d(prev.system, cur.system),
             iowait     |-> d(prev.iowait, cur.iowait),
             irq        |-> d(prev.irq, cur.irq),
             softirq    |-> d(prev.softirq, cur.softirq),
             steal      |-> d(prev.steal, cur.steal)]}

\* The counters only count up (iowait, by proc(5), need not).
Later(prev, cur) == \A f \in DOMAIN prev : prev[f] <= cur[f]
=============================================================================
