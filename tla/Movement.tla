------------------------------- MODULE Movement -------------------------------
(***************************************************************************)
(* Entering a location (src/dnd_ai/commands/movement.py) and the table it  *)
(* writes, campaign.character_location_history, as the revision 043 leaves *)
(* it.  The row of a character without a departure says where it is.  To   *)
(* move is to close that row and to insert another; a first move has no    *)
(* row to lock.                                                            *)
(*                                                                         *)
(* At READ COMMITTED a SELECT FOR UPDATE that waited looks at the row      *)
(* again: a row that was closed meanwhile no longer answers, and the one   *)
(* opened in its place is not in its snapshot.  What keeps such a caller   *)
(* out is the exclusion constraint on the periods.  It is checked after    *)
(* the row is in the index, so that two insertions may wait for each       *)
(* other, and the database ends one of them.                               *)
(***************************************************************************)
EXTENDS Naturals, Sequences

CONSTANTS
  Txs,
  Characters,
  Locations,
  MaxTime,   \* world times, by their sort key
  MaxMoves,  \* bound: calls of enter_location
  None

VARIABLES
  periods,   \* the committed rows of a character, oldest first
  trail,     \* the committed effects of its moves, oldest first
  openLock,  \* who holds the lock of its open row
  step,
  move,      \* who goes where, and when
  here,      \* where the character is, as the transaction found it
  moves

movementVars == <<periods, trail, openLock, step, move, here, moves>>

Steps == {"idle", "select", "waiting", "close", "insert", "check", "stay", "commit"}
Times == 1 .. MaxTime
Moves == [who : Characters, at : Locations, time : Times]

\* NULL is no location, no transaction and no move.
MovementAssumption ==
  /\ None \notin Txs /\ None \notin Locations /\ None \notin Moves
  /\ MaxTime \in Nat /\ MaxMoves \in Nat

TypeOK ==
  /\ periods \in [Characters ->
                    Seq([at : Locations, from : Times, to : Times \cup {None}])]
  /\ trail \in [Characters -> Seq((Locations \cup {None}) \X Locations)]
  /\ openLock \in [Characters -> Txs \cup {None}]
  /\ step \in [Txs -> Steps]
  /\ move \in [Txs -> Moves \cup {None}]
  /\ here \in [Txs -> Locations \cup {None}]
  /\ moves \in 0 .. MaxMoves

Init ==
  /\ periods = [c \in Characters |-> <<>>]
  /\ trail = [c \in Characters |-> <<>>]
  /\ openLock = [c \in Characters |-> None]
  /\ step = [t \in Txs |-> "idle"]
  /\ move = [t \in Txs |-> None]
  /\ here = [t \in Txs |-> None]
  /\ moves = 0
-----------------------------------------------------------------------------
Who(t) == move[t].who

\* Whoever enters a location leaves a row without departure.
Open(c) == periods[c][Len(periods[c])]

Goto(t, to) == step' = [step EXCEPT ![t] = to]

Call(t, m) ==
  /\ step[t] = "idle"
  /\ moves < MaxMoves
  /\ moves' = moves + 1
  /\ Goto(t, "select")
  /\ move' = [move EXCEPT ![t] = m]
  /\ UNCHANGED <<periods, trail, openLock, here>>

\* The open row is there and not locked, or not any more.
SelectFinds(t) ==
  /\ step[t] \in {"select", "waiting"}
  /\ periods[Who(t)] # <<>> /\ openLock[Who(t)] = None
  /\ openLock' = [openLock EXCEPT ![Who(t)] = t]
  /\ here' = [here EXCEPT ![t] = Open(Who(t)).at]
  /\ Goto(t, IF Open(Who(t)).at = move[t].at THEN "stay" ELSE "close")
  /\ UNCHANGED <<periods, trail, move, moves>>

SelectFindsNothing(t) ==
  /\ step[t] = "select"
  /\ periods[Who(t)] = <<>>
  /\ Goto(t, "insert")
  /\ UNCHANGED <<periods, trail, openLock, move, here, moves>>

SelectWaits(t) ==
  /\ step[t] = "select"
  /\ periods[Who(t)] # <<>> /\ openLock[Who(t)] # None
  /\ Goto(t, "waiting")
  /\ UNCHANGED <<periods, trail, openLock, move, here, moves>>

\* The trigger wants the departure to be later than the arrival.
Close(t) ==
  /\ step[t] = "close"
  /\ move[t].time > Open(Who(t)).from
  /\ Goto(t, "insert")
  /\ UNCHANGED <<periods, trail, openLock, move, here, moves>>

\* The new row goes into the index before it is compared with others.
Insert(t) ==
  /\ step[t] = "insert"
  /\ Goto(t, "check")
  /\ UNCHANGED <<periods, trail, openLock, move, here, moves>>

\* A committed row that t does not close itself and whose period overlaps.
Overlaps(t) ==
  \E i \in DOMAIN periods[Who(t)] :
    LET p == periods[Who(t)][i]
    IN IF p.to = None THEN openLock[Who(t)] # t ELSE p.to > move[t].time

\* The transactions whose uncommitted row, or whose closing of the open row, t
\* has to wait for.
Blockers(t) ==
  {u \in Txs \ {t} :
     /\ move[u] # None /\ Who(u) = Who(t)
     /\ \/ step[u] \in {"check", "commit"}
        \/ step[u] = "insert" /\ openLock[Who(t)] = u}

\* Mutant of CheckPasses: no exclusion constraint on the periods.
CheckNothing(t) ==
  /\ step[t] = "check"
  /\ Goto(t, "commit")
  /\ UNCHANGED <<periods, trail, openLock, move, here, moves>>

CheckPasses(t) ==
  /\ step[t] = "check"
  /\ Blockers(t) = {} /\ ~Overlaps(t)
  /\ Goto(t, "commit")
  /\ UNCHANGED <<periods, trail, openLock, move, here, moves>>

End(t) ==
  /\ move' = [move EXCEPT ![t] = None]
  /\ here' = [here EXCEPT ![t] = None]
  /\ openLock' = [c \in Characters |-> IF openLock[c] = t THEN None ELSE openLock[c]]
  /\ UNCHANGED moves

\* The character is where it is to go: no event and no row.
Stay(t) ==
  /\ step[t] = "stay"
  /\ Goto(t, "idle")
  /\ End(t)
  /\ UNCHANGED <<periods, trail>>

\* Whoever waited for the row that is now closed finds none.
Commit(t) ==
  LET c == Who(t)
      n == Len(periods[c])
      arrival == [at |-> move[t].at, from |-> move[t].time, to |-> None]
  IN /\ step[t] = "commit"
     /\ periods' = [periods EXCEPT ![c] =
                      Append(IF here[t] = None THEN @
                             ELSE [@ EXCEPT ![n].to = move[t].time], arrival)]
     /\ trail' = [trail EXCEPT ![c] = Append(@, <<here[t], move[t].at>>)]
     /\ step' = [u \in Txs |->
                   IF u = t THEN "idle"
                   ELSE IF step[u] = "waiting" /\ Who(u) = c THEN "insert"
                   ELSE step[u]]
     /\ End(t)

\* A trigger, the constraint or the detection of deadlocks refuses the move, or
\* the connection breaks.
Rollback(t) ==
  /\ step[t] # "idle"
  /\ Goto(t, "idle")
  /\ End(t)
  /\ UNCHANGED <<periods, trail>>

Next ==
  \E t \in Txs :
    \/ \E m \in [who : Characters, at : Locations, time : Times] : Call(t, m)
    \/ SelectFinds(t) \/ SelectFindsNothing(t) \/ SelectWaits(t)
    \/ Close(t) \/ Insert(t) \/ CheckPasses(t)
    \/ Stay(t) \/ Commit(t) \/ Rollback(t)

Spec == Init /\ [][Next]_movementVars
-----------------------------------------------------------------------------
\* The effects of a character's moves form one path, each starting where the one
\* before led, and the rows are its stations, without a gap or an overlap, the
\* last of them open: however moves race, and though the lock that serialises
\* them lies on a row that a move replaces.
PathIsWhole ==
  \A c \in Characters :
    /\ Len(trail[c]) = Len(periods[c])
    /\ \A i \in DOMAIN trail[c] :
         LET p == periods[c][i]
         IN /\ trail[c][i] = <<IF i = 1 THEN None ELSE periods[c][i - 1].at, p.at>>
            /\ p.to = IF i = Len(periods[c]) THEN None ELSE periods[c][i + 1].from
            /\ p.to # None => p.from < p.to

\* The lock keeps a concurrent call from deciding "already here" or closing and
\* opening rows out of order (docstring of _current_location_row): a caller that
\* waited for it never goes on as if the character had no location.  TLC refutes
\* it: README, section 6.
WaitingFindsTheRow ==
  [][\A t \in Txs : step[t] = "waiting" => step'[t] # "insert"]_movementVars
-----------------------------------------------------------------------------
CallFits == \A t \in Txs : step[t] # "idle" => move[t] \in Moves

\* Who knows where the character is holds the row that says so.
HoldsRow ==
  \A t \in Txs : here[t] # None => move[t] \in Moves /\ openLock[Who(t)] = t

\* The row that is locked is open, its holder knows what it says, and what the
\* holder writes is later.
LockFits ==
  \A c \in Characters : openLock[c] # None =>
    LET t == openLock[c]
    IN /\ step[t] \in {"close", "insert", "check", "stay", "commit"} /\ Who(t) = c
       /\ periods[c] # <<>> /\ here[t] = Open(c).at
       /\ step[t] \in {"insert", "check", "commit"} => move[t].time > Open(c).from

\* Of one character one move commits, and it replaces the open row or is the first.
OneArrives ==
  \A t \in Txs : step[t] = "commit" =>
    /\ openLock[Who(t)] = t \/ periods[Who(t)] = <<>>
    /\ \A u \in Txs \ {t} : step[u] = "commit" => Who(u) # Who(t)

IInv == TypeOK /\ CallFits /\ HoldsRow /\ LockFits /\ OneArrives /\ PathIsWhole
=============================================================================
