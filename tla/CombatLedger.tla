----------------------------- MODULE CombatLedger -----------------------------
(***************************************************************************)
(* What the combat and character-state commands promise: each of them      *)
(* takes effect in one step, on an encounter that is active and belongs to *)
(* the asserted campaign, and every change of a tracked value is recorded  *)
(* with the value before and after it (src/dnd_ai/commands/encounters.py,  *)
(* src/dnd_ai/commands/character_state.py).                                *)
(***************************************************************************)
EXTENDS Integers, Sequences

CONSTANTS
  Encounters, Slots, Campaigns,
  HitPoints, Resources,   \* the rows that hold a character's values
  Maximum,                \* the maximum of a row
  None

Rows == HitPoints \cup Resources

VARIABLES
  status,     \* of an encounter
  campaign,   \* that owns an encounter
  turns,      \* recorded turns, each with the campaign it is attributed to
  endings,    \* completion events of an encounter
  value,      \* current value of a row
  history     \* recorded changes of a row, oldest first

vars == <<status, campaign, turns, endings, value, history>>

Init ==
  /\ status = [e \in Encounters |-> "none"]
  /\ campaign = [e \in Encounters |-> None]
  /\ turns = {}
  /\ endings = [e \in Encounters |-> 0]
  /\ value = [x \in Rows |-> Maximum[x]]
  /\ history = [x \in Rows |-> <<>>]

Start(e, c) ==
  /\ status[e] = "none"
  /\ status' = [status EXCEPT ![e] = "active"]
  /\ campaign' = [campaign EXCEPT ![e] = c]
  /\ UNCHANGED <<turns, endings, value, history>>

\* The encounter is active and belongs to the campaign, if one is asserted.
Usable(e, asserted) == status[e] = "active" /\ asserted \in {None, campaign[e]}

Record(e, s) ==
  /\ \A u \in turns : u.encounter # e \/ u.slot # s
  /\ turns' = turns \cup {[encounter |-> e, slot |-> s, campaign |-> campaign[e]]}

Change(x, new) ==
  /\ value' = [value EXCEPT ![x] = new]
  /\ history' = [history EXCEPT ![x] = Append(@, [previous |-> value[x], new |-> new])]

Turn(e, s, asserted) ==
  /\ Usable(e, asserted)
  /\ Record(e, s)
  /\ UNCHANGED <<status, campaign, endings, value, history>>

DamagingTurn(e, s, asserted, x, damage) ==
  /\ Usable(e, asserted)
  /\ Record(e, s)
  /\ damage \in 1 .. value[x]
  /\ Change(x, value[x] - damage)
  /\ UNCHANGED <<status, campaign, endings>>

End(e, asserted) ==
  /\ Usable(e, asserted)
  /\ status' = [status EXCEPT ![e] = "completed"]
  /\ endings' = [endings EXCEPT ![e] = @ + 1]
  /\ UNCHANGED <<campaign, turns, value, history>>

\* A row gets another value within its bounds.
Adjust(x, new) ==
  /\ new \in (0 .. Maximum[x]) \ {value[x]}
  /\ Change(x, new)
  /\ UNCHANGED <<status, campaign, turns, endings>>

Next ==
  \/ \E e \in Encounters, c \in Campaigns \cup {None} :
       Start(e, c) \/ End(e, c)
  \/ \E e \in Encounters, s \in Slots, c \in Campaigns \cup {None} :
       \/ Turn(e, s, c)
       \/ \E x \in HitPoints : \E n \in 1 .. value[x] : DamagingTurn(e, s, c, x, n)
  \/ \E x \in Rows : \E n \in 0 .. Maximum[x] : Adjust(x, n)

Spec == Init /\ [][Next]_vars
=============================================================================
