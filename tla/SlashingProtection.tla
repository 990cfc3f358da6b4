------------------------- MODULE SlashingProtection -------------------------
(***************************************************************************)
(* What the EOTS manager promises to the finality provider: a slot (key,   *)
(* chain, height) is bound to at most one message, durably, and only the   *)
(* bound message is ever published at it.  An operator may waive the       *)
(* protection of slots; only there may a slot be bound again.              *)
(***************************************************************************)
CONSTANTS Slots, Msgs, None

VARIABLES
  bound,   \* slot -> the message it is bound to, or None
  out,     \* the <<slot, message>> pairs published
  waived   \* slots without protection

absVars == <<bound, out, waived>>

AbsInit ==
  /\ bound = [s \in Slots |-> None]
  /\ out = {}
  /\ waived = {}

\* Bind unbound slots, one or several at once.
Bind ==
  /\ bound' \in [Slots -> Msgs \cup {None}]
  /\ \A s \in Slots : bound[s] # None => bound'[s] = bound[s]
  /\ UNCHANGED <<out, waived>>

\* Publish what is bound.
Publish ==
  /\ out \subseteq out'
  /\ \A p \in out' \ out : bound[p[1]] = p[2] \/ p[1] \in waived
  /\ UNCHANGED <<bound, waived>>

\* Waive the protection of a set of slots and unbind them.
Waive ==
  /\ waived \subseteq waived'
  /\ waived' \subseteq Slots
  /\ bound' \in [Slots -> Msgs \cup {None}]
  /\ \A s \in Slots : bound'[s] = bound[s] \/ (bound'[s] = None /\ s \in waived')
  /\ UNCHANGED out

AbsNext == Bind \/ Publish \/ Waive

AbsSpec == AbsInit /\ [][AbsNext]_absVars
=============================================================================
