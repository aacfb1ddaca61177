----------------------------- MODULE RVPLICtrl -----------------------------
(***************************************************************************)
(* The interrupt controller RVPLICtrl<nr_source, nr_context>               *)
(* (rv_plic/include/RVPLICtrl.hpp) behind CemuPlicAdapter.                 *)
(*                                                                         *)
(* Once a round the run loop latches the devices' lines and computes the   *)
(* claim register of every context; in between, the harts read and write   *)
(* its registers, one access at a time.  A claim register is not computed  *)
(* again before the next round, whatever is claimed, completed, masked or  *)
(* routed elsewhere in the meantime.                                       *)
(*                                                                         *)
(* Here the accesses come in any order and number between two updates; the *)
(* order of the run loop is Platform's.  Bit vectors are sets.  The guest  *)
(* uses the registers of existing contexts and sources, and completes only *)
(* what it has claimed.                                                    *)
(***************************************************************************)
EXTENDS Integers, FiniteSets

CONSTANTS
    Source,      \* interrupt sources; 0 is reserved
    Context,     \* one for each interrupt line of each hart
    MaxLevel     \* of the priority and threshold registers

ASSUME PlicAssumption == Source \subseteq Nat \ {0} /\ MaxLevel \in Nat

Level == 0 .. MaxLevel

VARIABLES
    priority, threshold, enable,
    pending,
    claim,       \* the claim register of each context; 0 for none
    claimed,     \* sources claimed and not completed
    held,        \* history: what each context has claimed and not completed
    shared       \* history: sources that were ever enabled in two contexts

plicRegs == <<priority, threshold, enable>>
plicVars == <<priority, threshold, enable, pending, claim, claimed, held, shared>>

PlicTypeOK ==
    /\ priority \in [Source -> Level]
    /\ threshold \in [Context -> Level]
    /\ enable \in [Context -> SUBSET Source]
    /\ pending \subseteq Source
    /\ claim \in [Context -> Source \cup {0}]
    /\ claimed \subseteq Source \cup {0}
    /\ held \in [Context -> SUBSET Source]
    /\ shared \subseteq Source

PlicInit ==
    /\ priority = [i \in Source |-> 0]
    /\ threshold = [c \in Context |-> 0]
    /\ enable = [c \in Context |-> {}]
    /\ pending = {}
    /\ claim = [c \in Context |-> 0]
    /\ claimed = {}
    /\ held = [c \in Context |-> {}]
    /\ shared = {}

----------------------------------------------------------------------------
\* Mutant: a claimed source stays eligible.
EligibleClaimed(c, pend) ==
    {i \in pend \cap enable[c] : priority[i] >= threshold[c] /\ priority[i] > 0}

\* The sources get_int chooses from, given the pending ones.
Eligible(c, pend) ==
    {i \in (pend \cap enable[c]) \ claimed : priority[i] >= threshold[c] /\ priority[i] > 0}

\* The first of the highest priority, or 0.
get_int(c, pend) ==
    LET e == Eligible(c, pend)
    IN IF e = {} THEN 0
       ELSE CHOOSE i \in e : \A j \in e : \/ priority[i] > priority[j]
                                         \/ (priority[i] = priority[j] /\ i <= j)

\* update_ext for every registered device, then get_int for every context.
UpdateIntState(fired) ==
    /\ pending' = pending \cup fired
    /\ claim' = [c \in Context |-> get_int(c, pending')]
    /\ UNCHANGED <<plicRegs, claimed, held, shared>>

\* Reading the claim register marks what it shows as claimed, source 0 and
\* a source another context took in this round included.
ReadClaim(c) ==
    /\ claimed' = claimed \cup {claim[c]}
    /\ held' = [held EXCEPT ![c] = @ \cup ({claim[c]} \ {0})]
    /\ UNCHANGED <<plicRegs, pending, claim, shared>>

\* Mutant: completion leaves the source claimed.
WriteCompleteClaimed(c, i) ==
    /\ pending' = pending \ {i}
    /\ held' = [held EXCEPT ![c] = @ \ {i}]
    /\ UNCHANGED <<plicRegs, claim, claimed, shared>>

\* Completion is not tied to the context that claimed.
WriteComplete(c, i) ==
    /\ claimed' = claimed \ {i}
    /\ pending' = pending \ {i}
    /\ held' = [held EXCEPT ![c] = @ \ {i}]
    /\ UNCHANGED <<plicRegs, claim, shared>>

WritePriority(i, p) ==
    /\ priority' = [priority EXCEPT ![i] = p]
    /\ UNCHANGED <<threshold, enable, pending, claim, claimed, held, shared>>

WriteThreshold(c, t) ==
    /\ threshold' = [threshold EXCEPT ![c] = t]
    /\ UNCHANGED <<priority, enable, pending, claim, claimed, held, shared>>

WriteEnable(c, s) ==
    /\ enable' = [enable EXCEPT ![c] = s]
    /\ shared' = shared \cup UNION {s \cap enable[d] : d \in Context \ {c}}
    /\ UNCHANGED <<priority, threshold, pending, claim, claimed, held>>

PlicNext ==
    \/ \E fired \in SUBSET Source : UpdateIntState(fired)
    \/ \E i \in Source, p \in Level : WritePriority(i, p)
    \/ \E c \in Context :
          \/ ReadClaim(c)
          \/ \E i \in held[c] : WriteComplete(c, i)
          \/ \E t \in Level : WriteThreshold(c, t)
          \/ \E s \in SUBSET Source : WriteEnable(c, s)

PlicSpec == PlicInit /\ [][PlicNext]_plicVars

----------------------------------------------------------------------------
\* Two contexts have claimed the same source only if it was once enabled in
\* two at the same moment: moving a source from one hart to another, however
\* it interleaves with claims made from registers that are out of date, never
\* makes both serve it.
ExclusiveClaim ==
    \A i \in Source \ shared, c, d \in Context : i \in held[c] /\ i \in held[d] => c = d

\* A source that get_int passes over because it is claimed has a context that
\* will complete it: none is blocked for ever.
NoOrphanClaim ==
    \A i \in claimed \ {0} : \E c \in Context : i \in held[c]
============================================================================
