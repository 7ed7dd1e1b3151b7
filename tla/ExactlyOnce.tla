----------------------------- MODULE ExactlyOnce -----------------------------
(***************************************************************************)
(* What the service promises to a client that sends an operation again     *)
(* (the docstrings of src/dnd_ai/commands/integration.py and of            *)
(* src/dnd_ai/api/idempotency.py): an operation is bound to the first      *)
(* payload it was used with, its effect happens at most once, and every    *)
(* answer agrees with both.                                                *)
(***************************************************************************)
EXTENDS Naturals

CONSTANTS Ops, Payloads, None

VARIABLES
  bound,    \* the payload an operation was first used with
  done,     \* whether its effect has happened
  answers   \* the answers given so far

vars == <<bound, done, answers>>

Init ==
  /\ bound = [o \in Ops |-> None]
  /\ done = [o \in Ops |-> FALSE]
  /\ answers = {}

Bind(o, p) ==
  /\ bound[o] = None
  /\ bound' = [bound EXCEPT ![o] = p]
  /\ UNCHANGED <<done, answers>>

Apply(o) ==
  /\ bound[o] # None
  /\ ~done[o]
  /\ done' = [done EXCEPT ![o] = TRUE]
  /\ UNCHANGED <<bound, answers>>

\* Both in one transaction.
BindAndApply(o, p) ==
  /\ bound[o] = None
  /\ ~done[o]
  /\ bound' = [bound EXCEPT ![o] = p]
  /\ done' = [done EXCEPT ![o] = TRUE]
  /\ UNCHANGED answers

\* A success is only reported for the payload whose effect has happened, a
\* conflict only to a payload that is not the bound one.
MayAnswer(o, p, r) ==
  \/ r \in {"applied", "replayed"} /\ done[o] /\ bound[o] = p
  \/ r = "conflict" /\ bound[o] \notin {None, p}
  \/ r = "error"

Answer(o, p, r) ==
  /\ MayAnswer(o, p, r)
  /\ answers' = answers \cup {[op |-> o, arg |-> p, result |-> r]}
  /\ UNCHANGED <<bound, done>>

Next ==
  \/ \E o \in Ops, p \in Payloads : Bind(o, p) \/ BindAndApply(o, p)
  \/ \E o \in Ops : Apply(o)
  \/ \E o \in Ops, p \in Payloads, r \in {"applied", "replayed", "conflict", "error"} :
       Answer(o, p, r)

Spec == Init /\ [][Next]_vars
=============================================================================
