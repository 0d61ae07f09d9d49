------------------------------ MODULE Arbiter -------------------------------
(***************************************************************************)
(* arbiter (HW/src/util/arbiter.vhd): the round-robin arbiter that picks   *)
(* the next thread of a core.  Vectors of NUM_SIGNALS bits are sets of     *)
(* signal numbers, req and -req is the lowest member.                      *)
(***************************************************************************)
EXTENDS Naturals

CONSTANT NUM_SIGNALS

\* What the theorems assume of it.
AtLeastOneSignal == NUM_SIGNALS \in Nat \ {0}

Signals == 0..(NUM_SIGNALS - 1)

VARIABLES gnt_r,       \* signals above the one granted last
          overtaken    \* overtaken[i][j]: grants of j while i kept waiting

arbiter_vars == <<gnt_r, overtaken>>

ArbiterInit ==
  /\ gnt_r = {}
  /\ overtaken = [i \in Signals |-> [j \in Signals |-> 0]]

\* v and -v
Lowest(g, v) == g \in v /\ \A k \in v : g <= k

\* gnt2 (arbiter.vhd:60-64).
Grant(g, req_in) ==
  LET req == req_in \cap gnt_r
  IN  Lowest(g, IF req # {} THEN req ELSE req_in)

\* The next gnt_r: not((gnt2-1) or gnt2).
Above(g) == {k \in Signals : k > g}

\* A clock edge with req_in sampled.  A signal waits from the clock it first
\* requests to the clock it is granted or stops requesting.
ArbiterClock(req_in) ==
  \/ /\ req_in = {}
     /\ overtaken' = [i \in Signals |-> [j \in Signals |-> 0]]
     /\ UNCHANGED gnt_r
  \/ \E g \in Signals :
       /\ Grant(g, req_in)
       /\ gnt_r' = Above(g)
       /\ overtaken' =
            [i \in Signals |-> [j \in Signals |->
               IF i \notin req_in \/ i = g THEN 0
               ELSE overtaken[i][j] + (IF j = g THEN 1 ELSE 0)]]

ArbiterNext == \E req_in \in SUBSET Signals : ArbiterClock(req_in)

ArbiterSpec == ArbiterInit /\ [][ArbiterNext]_arbiter_vars

-----------------------------------------------------------------------------
ArbiterTypeOK ==
  /\ gnt_r \in SUBSET Signals
  /\ overtaken \in [Signals -> [Signals -> Nat]]

\* No signal is granted twice while another keeps requesting: a thread that is
\* ready is picked after at most NUM_SIGNALS-1 grants of others.
OvertakenAtMostOnce == \A i, j \in Signals : overtaken[i][j] <= 1
=============================================================================
