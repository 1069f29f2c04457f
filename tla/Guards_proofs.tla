--------------------------- MODULE Guards_proofs ---------------------------
(***************************************************************************)
(* What holds of the guards between a strategy and its money, for every    *)
(* value of the constants: the breaker, for any attempts and thresholds,   *)
(* and the exits of one wired strategy beside what others have left open,  *)
(* whatever prices come and whatever waits on the bus.                     *)
(***************************************************************************)
EXTENDS CircuitBreaker, PositionExits, SequenceTheorems, WellFoundedInduction, TLAPS

-----------------------------------------------------------------------------
(* The breaker *)

(* Every step keeps the variables in their ranges.                         *)
LEMMA TypeStep == TypeOK /\ [Next]_vars => TypeOK'
<1> SUFFICES ASSUME TypeOK, [Next]_vars PROVE TypeOK'
  OBVIOUS
<1> USE ConstantsAssumption DEF TypeOK, CBState
<1>1. CASE Tick
  BY <1>1 DEF Tick
<1>2. ASSUME NEW a \in Attempts, Admit(a) PROVE TypeOK'
  BY <1>2 DEF Admit, ObservedState
<1>3. ASSUME NEW a \in Attempts, Reject(a) PROVE TypeOK'
  BY <1>3 DEF Reject, ObservedState
<1>4. ASSUME NEW a \in Attempts, RecordSuccess(a) PROVE TypeOK'
  BY <1>4 DEF RecordSuccess
<1>5. ASSUME NEW a \in Attempts, RecordFailure(a) PROVE TypeOK'
  BY <1>5 DEF RecordFailure, CountFailure, Trips
<1>6. ASSUME NEW a \in Attempts, Abandon(a) PROVE TypeOK'
  BY <1>6 DEF Abandon
<1>7. CASE UNCHANGED vars
  BY <1>7 DEF vars
<1> QED
  BY <1>1, <1>2, <1>3, <1>4, <1>5, <1>6, <1>7 DEF Next

(* The variables of the breaker always stay in their ranges.               *)
THEOREM TypeCorrect == Spec => []TypeOK
<1>1. Init => TypeOK
  BY ConstantsAssumption DEF Init, TypeOK, CBState
<1> QED
  BY <1>1, TypeStep, PTL DEF Spec

-----------------------------------------------------------------------------

(* Inv is inductive relative to the types.                                 *)
LEMMA InvStep == TypeOK /\ Inv /\ [Next]_vars => Inv'
<1> SUFFICES ASSUME TypeOK, Inv, [Next]_vars PROVE Inv'
  OBVIOUS
<1> USE ConstantsAssumption
        DEF TypeOK, CBState, Inv, CountMatchesState, HalfOpenOnlyAfterRecovery,
            RecoveryElapsed
<1>1. CASE Tick
  BY <1>1 DEF Tick
<1>2. ASSUME NEW a \in Attempts, Admit(a) PROVE Inv'
  BY <1>2 DEF Admit, ObservedState
<1>3. ASSUME NEW a \in Attempts, Reject(a) PROVE Inv'
  BY <1>3 DEF Reject, ObservedState
<1>4. ASSUME NEW a \in Attempts, RecordSuccess(a) PROVE Inv'
  BY <1>4 DEF RecordSuccess
<1>5. ASSUME NEW a \in Attempts, RecordFailure(a) PROVE Inv'
  <2>1. failures' \in Nat /\ failures' >= failures
        /\ (failures' >= FailureThreshold <=>
              failures >= FailureThreshold \/ failures + 1 >= FailureThreshold)
    BY <1>5 DEF RecordFailure, CountFailure
  <2>2. CASE Trips(failures')
    BY <1>5, <2>1, <2>2 DEF RecordFailure, Trips
  <2>3. CASE ~Trips(failures')
    BY <1>5, <2>1, <2>3 DEF RecordFailure, Trips
  <2> QED
    BY <2>2, <2>3
<1>6. ASSUME NEW a \in Attempts, Abandon(a) PROVE Inv'
  BY <1>6 DEF Abandon
<1>7. CASE UNCHANGED vars
  BY <1>7 DEF vars
<1> QED
  BY <1>1, <1>2, <1>3, <1>4, <1>5, <1>6, <1>7 DEF Next

(* The state and the counter of the breaker agree, and HALF_OPEN is seen    *)
(* only after the cool-down, in every interleaving of the attempts.        *)
THEOREM InvHolds == Spec => []Inv
<1>1. Init => Inv
  BY ConstantsAssumption
     DEF Init, Inv, CountMatchesState, HalfOpenOnlyAfterRecovery
<1> QED
  BY <1>1, InvStep, TypeCorrect, PTL DEF Spec

(* The counter tells whether the breaker is closed.                        *)
THEOREM CountAlwaysMatchesState == Spec => []CountMatchesState
<1>1. Inv => CountMatchesState
  BY DEF Inv
<1> QED
  BY <1>1, InvHolds, PTL

(* HALF_OPEN is seen only once the last trip's cool-down is over.          *)
THEOREM HalfOpenAlwaysAfterRecovery == Spec => []HalfOpenOnlyAfterRecovery
<1>1. Inv => HalfOpenOnlyAfterRecovery
  BY DEF Inv
<1> QED
  BY <1>1, InvHolds, PTL

-----------------------------------------------------------------------------

(* What one step may admit: a step that admits an attempt finds the breaker *)
(* below its threshold or cooled down.                                     *)
LEMMA AdmissionStep ==
  ASSUME TypeOK, Inv, [Next]_vars, NEW a \in Attempts,
         pc[a] = "idle", pc'[a] = "in_flight"
  PROVE  failures < FailureThreshold \/ RecoveryElapsed
<1> USE DEF TypeOK
<1>1. ~Tick /\ ~(UNCHANGED vars)
  BY DEF Tick, vars
<1>2. ASSUME NEW b \in Attempts,
             Reject(b) \/ RecordSuccess(b) \/ RecordFailure(b) \/ Abandon(b)
      PROVE  FALSE
  BY <1>2 DEF Reject, RecordSuccess, RecordFailure, Abandon
<1>3. PICK b \in Attempts : Admit(b)
  BY <1>1, <1>2 DEF Next
<1>4. ObservedState \in {"CLOSED", "HALF_OPEN"}
  BY <1>3 DEF Admit
<1>5. CASE state = "CLOSED"
  BY <1>5 DEF Inv, CountMatchesState
<1>6. CASE state = "OPEN"
  BY <1>4, <1>6 DEF ObservedState
<1>7. CASE state = "HALF_OPEN"
  BY <1>7 DEF Inv, HalfOpenOnlyAfterRecovery
<1> QED
  BY <1>5, <1>6, <1>7 DEF CBState

(* No order attempt passes the breaker while it is cooling down.           *)
THEOREM CoolingBlocks == Spec => NoAdmissionWhileCooling
<1>1. TypeOK /\ Inv /\ [Next]_vars
        => [\A a \in Attempts :
              (pc[a] = "idle" /\ pc'[a] = "in_flight")
                 => failures < FailureThreshold \/ RecoveryElapsed]_vars
  BY AdmissionStep
<1> QED
  BY <1>1, TypeCorrect, InvHolds, PTL DEF Spec, NoAdmissionWhileCooling

-----------------------------------------------------------------------------
(* The exits of one strategy *)

Sole == Order[1]
OneStrategy == Order = <<Sole>>

\* The position of the strategy, as its own manager knows it.
Own == pos[Sole][Sole]

\* q is a sequence, of whatever elements.
IsSequence(q) == \E S : q \in Seq(S)

-----------------------------------------------------------------------------
(* Sequences of events *)

LEMMA Appended ==
  ASSUME NEW q, IsSequence(q), NEW e
  PROVE  /\ IsSequence(Append(q, e))
         /\ Len(q) \in Nat /\ Len(Append(q, e)) = Len(q) + 1
         /\ \A i \in 1..Len(q) : Append(q, e)[i] = q[i]
         /\ Append(q, e)[Len(q) + 1] = e
         /\ Append(q, e) # <<>>
         /\ q # <<>> => Head(Append(q, e)) = Head(q)
<1>1. PICK S : q \in Seq(S)
  BY DEF IsSequence
<1> DEFINE T == S \cup {e}
<1>2. q \in Seq(T) /\ e \in T
  BY <1>1
<1> HIDE DEF T
<1>3. Append(q, e) \in Seq(T)
  BY <1>2
<1>4. IsSequence(Append(q, e))
  BY <1>3 DEF IsSequence
<1>5. /\ Len(q) \in Nat /\ Len(Append(q, e)) = Len(q) + 1
      /\ \A i \in 1..Len(q) : Append(q, e)[i] = q[i]
      /\ Append(q, e)[Len(q) + 1] = e
      /\ Append(q, e) # <<>>
      /\ q # <<>> => Head(Append(q, e)) = Head(q)
  BY <1>2
<1> QED
  BY <1>4, <1>5

LEMMA TakenOff ==
  ASSUME NEW q, IsSequence(q), q # <<>>
  PROVE  /\ IsSequence(Tail(q))
         /\ Len(q) \in Nat \ {0} /\ Len(Tail(q)) = Len(q) - 1
         /\ \A i \in 1..Len(Tail(q)) : Tail(q)[i] = q[i + 1]
         /\ Head(q) = q[1]
<1>1. PICK S : q \in Seq(S)
  BY DEF IsSequence
<1>2. Tail(q) \in Seq(S)
  BY <1>1
<1>3. IsSequence(Tail(q))
  BY <1>2 DEF IsSequence
<1>4. /\ Len(q) \in Nat \ {0} /\ Len(Tail(q)) = Len(q) - 1
      /\ \A i \in 1..Len(Tail(q)) : Tail(q)[i] = q[i + 1]
      /\ Head(q) = q[1]
  BY <1>1
<1> QED
  BY <1>3, <1>4

\* What an event is to the strategy: a trigger of another one's position is nothing.
Kind(e) == IF e.type = "exit" /\ e.strategy # Sole THEN "none" ELSE e.type

\* An event of kind a waits before one of kind b.
Precedes(q, a, b) == \E i, j \in 1..Len(q) : i < j /\ Kind(q[i]) = a /\ Kind(q[j]) = b

\* What waits while the position has an id of these, or while there is no position: no sale
\* before a BUY, and triggers of this position only; then no BUY before a sale or a trigger.
Chain(q, ids) ==
    IF ids = {} THEN ~Precedes(q, "buy", "sell") /\ ~Precedes(q, "buy", "exit")
    ELSE /\ ~Precedes(q, "sell", "buy")
         /\ \A i \in 1..Len(q) : Kind(q[i]) = "exit" => ids = {q[i].id}

LEMMA PrecedesTail ==
  ASSUME NEW q, IsSequence(q), q # <<>>, NEW a, NEW b
  PROVE  /\ Precedes(Tail(q), a, b) => Precedes(q, a, b)
         /\ Kind(Head(q)) = a /\ ~Precedes(q, a, b) => \A i \in 1..Len(Tail(q)) : Kind(Tail(q)[i]) # b
<1>1. /\ Len(q) \in Nat \ {0} /\ Len(Tail(q)) = Len(q) - 1 /\ Head(q) = q[1]
      /\ \A i \in 1..Len(Tail(q)) : Tail(q)[i] = q[i + 1] /\ i + 1 \in 1..Len(q)
  BY TakenOff
<1>2. ASSUME Precedes(Tail(q), a, b) PROVE Precedes(q, a, b)
  <2>1. PICK i, j \in 1..Len(Tail(q)) : i < j /\ Kind(Tail(q)[i]) = a /\ Kind(Tail(q)[j]) = b
    BY <1>2 DEF Precedes
  <2>2. i + 1 < j + 1 /\ Kind(q[i + 1]) = a /\ Kind(q[j + 1]) = b
    BY <1>1, <2>1
  <2> QED
    BY <1>1, <2>2 DEF Precedes
<1>3. ASSUME Kind(Head(q)) = a, NEW i \in 1..Len(Tail(q)), Kind(Tail(q)[i]) = b PROVE Precedes(q, a, b)
  <2>1. 1 \in 1..Len(q) /\ i + 1 \in 1..Len(q) /\ 1 < i + 1 /\ Kind(q[1]) = a /\ Kind(q[i + 1]) = b
    BY <1>1, <1>3
  <2> QED
    BY <2>1 DEF Precedes
<1> QED
  BY <1>2, <1>3

LEMMA PrecedesAppend ==
  ASSUME NEW q, IsSequence(q), NEW e, NEW a, NEW b, Precedes(Append(q, e), a, b)
  PROVE  Precedes(q, a, b) \/ Kind(e) = b
<1>1. /\ Len(q) \in Nat /\ Len(Append(q, e)) = Len(q) + 1
      /\ \A i \in 1..Len(q) : Append(q, e)[i] = q[i]
      /\ Append(q, e)[Len(q) + 1] = e
  BY Appended
<1>2. PICK i, j \in 1..(Len(q) + 1) : i < j /\ Kind(Append(q, e)[i]) = a /\ Kind(Append(q, e)[j]) = b
  BY <1>1 DEF Precedes
<1>3. CASE j = Len(q) + 1
  BY <1>1, <1>2, <1>3
<1>4. CASE j # Len(q) + 1
  <2>1. i \in 1..Len(q) /\ j \in 1..Len(q)
    BY <1>1, <1>2, <1>4
  <2> QED
    BY <1>1, <1>2, <2>1 DEF Precedes
<1> QED
  BY <1>3, <1>4

\* The first event is done with.
LEMMA ChainTail ==
  ASSUME NEW q, IsSequence(q), q # <<>>, NEW ids, Chain(q, ids)
  PROVE  /\ Chain(Tail(q), ids)
         /\ Kind(Head(q)) = "buy" /\ ids = {} => \A id : Chain(Tail(q), {id})
         /\ Kind(Head(q)) = "sell" /\ ids # {} => Chain(Tail(q), {})
<1>1. /\ Len(q) \in Nat \ {0} /\ Len(Tail(q)) = Len(q) - 1
      /\ \A i \in 1..Len(Tail(q)) : Tail(q)[i] = q[i + 1] /\ i + 1 \in 1..Len(q)
  BY TakenOff
<1>2. Chain(Tail(q), ids)
  BY <1>1, PrecedesTail DEF Chain
<1>3. ASSUME Kind(Head(q)) = "buy", ids = {}, NEW id PROVE Chain(Tail(q), {id})
  <2>1. \A i \in 1..Len(Tail(q)) : Kind(Tail(q)[i]) # "sell" /\ Kind(Tail(q)[i]) # "exit"
    BY <1>3, PrecedesTail DEF Chain
  <2> QED
    BY <2>1 DEF Chain, Precedes
<1>4. ASSUME Kind(Head(q)) = "sell", ids # {} PROVE Chain(Tail(q), {})
  <2>1. \A i \in 1..Len(Tail(q)) : Kind(Tail(q)[i]) # "buy"
    BY <1>4, PrecedesTail DEF Chain
  <2> QED
    BY <2>1 DEF Chain, Precedes
<1> QED
  BY <1>2, <1>3, <1>4

\* An event is published.
LEMMA ChainAppend ==
  ASSUME NEW q, IsSequence(q), NEW ids, Chain(q, ids), NEW e,
         \/ Kind(e) \in {"price", "none"} \/ (Kind(e) = "sell" /\ ids # {}) \/ (Kind(e) = "buy" /\ ids = {})
         \/ (Kind(e) = "exit" /\ ids = {e.id})
  PROVE  Chain(Append(q, e), ids)
<1>1. /\ Len(q) \in Nat /\ Len(Append(q, e)) = Len(q) + 1
      /\ \A i \in 1..Len(q) : Append(q, e)[i] = q[i]
      /\ Append(q, e)[Len(q) + 1] = e
  BY Appended
<1>2. CASE ids = {}
  <2>1. Kind(e) # "sell" /\ Kind(e) # "exit"
    BY <1>2
  <2> QED
    BY <1>2, <2>1, PrecedesAppend DEF Chain
<1>3. CASE ids # {}
  <2>1. Kind(e) # "buy"
    BY <1>3
  <2>2. ~Precedes(Append(q, e), "sell", "buy")
    BY <1>3, <2>1, PrecedesAppend DEF Chain
  <2>3. ASSUME NEW i \in 1..Len(Append(q, e)), Kind(Append(q, e)[i]) = "exit"
        PROVE  ids = {Append(q, e)[i].id}
    <3>1. CASE i = Len(q) + 1
      BY <1>1, <1>3, <2>3, <3>1
    <3>2. CASE i # Len(q) + 1
      BY <1>1, <1>3, <2>3, <3>2 DEF Chain
    <3> QED
      BY <3>1, <3>2
  <2> QED
    BY <1>3, <2>2, <2>3 DEF Chain
<1> QED
  BY <1>2, <1>3

LEMMA ChainEmpty == \A ids : Chain(<<>>, ids)
BY DEF Chain, Precedes

-----------------------------------------------------------------------------
(* The invariant                                                           *)

\* The bus and the one manager that handles its events.
Wired ==
    /\ up \in BOOLEAN
    /\ DOMAIN pos = {Sole} /\ DOMAIN pos[Sole] = Strategies
    /\ DOMAIN asked = {Sole} /\ DOMAIN reading = {Sole}
    /\ left = Order /\ IsSequence(queue)
    /\ \A i \in 1..Len(queue) : queue[i].type \in {"buy", "sell"} => queue[i].strategy = Sole
    /\ scan # {} \/ saving # {} => queue # <<>> /\ Head(queue).type = "price"
    /\ ~up => Own = {} /\ queue = <<>> /\ scan = {} /\ saving = {} /\ reading[Sole] = {}

Shape(p) == p = [id |-> p.id, strategy |-> p.strategy, entry |-> p.entry,
                 stop |-> p.stop, trail |-> p.trail, target |-> p.target]

\* p has the levels that were set last, if it is the position they were set for.
Stuck(p) ==
    p.id = asked[Sole].id => /\ asked[Sole].stop   \in {p.stop, Unsure}
                             /\ asked[Sole].target \in {p.target, Unsure}

\* A row has no target, and the stop that was set last.
Kept(r) ==
    /\ Shape(r) /\ r.target = 0
    /\ r.strategy = Sole /\ r.id = asked[Sole].id => asked[Sole].stop \in {r.stop, Unsure}

Table(q) == \E S : q \in Seq(S) /\ \A r \in S : Kept(r)

\* What is in memory, and what a market tick has listed ...
Known ==
    /\ \A p, q \in Own : p = q
    /\ \A s \in Strategies : \A p \in pos[Sole][s] : Shape(p) /\ p.strategy = s /\ (s = Sole => Stuck(p))
    /\ \A p \in scan : Shape(p) /\ p.strategy \in Strategies /\ (p.strategy = Sole => Stuck(p))

\* ... and what is in the table, and what start() has read from it, is as old as the last
\* level that was set, or nothing is said of that level.
Stored == Table(rows) /\ \A read \in reading[Sole] : Table(read)

\* Until the strategy is mixed, what waits on the bus is in order, and a market tick is
\* about the position that there is.
OwnIds == {p.id : p \in Own}
Ordered ==
    Sole \notin mixed =>
        /\ Chain(queue, OwnIds)
        /\ \A p \in scan : p.strategy = Sole => OwnIds = {p.id}
        /\ \A c \in saving : c.new.strategy = Sole => OwnIds = {c.new.id}

EInv == Wired /\ Known /\ Stored /\ Ordered

LEMMA Alone ==
  ASSUME OneStrategy
  PROVE  /\ Managers = {Sole} /\ Sole \in Strategies /\ Sole \notin Others
         /\ Len(Order) = 1 /\ Head(Order) = Sole
<1>1. Range(Order) = {Sole}
  BY DEF OneStrategy, Range
<1> QED
  BY <1>1, PositionExitsAssumption DEF OneStrategy, Managers, Strategies

LEMMA Levelled ==
  ASSUME NEW p, Shape(p), NEW l
  PROVE  /\ Shape([p EXCEPT !.stop = l]) /\ [p EXCEPT !.stop = l].id = p.id
         /\ [p EXCEPT !.stop = l].strategy = p.strategy /\ [p EXCEPT !.stop = l].stop = l
         /\ [p EXCEPT !.stop = l].target = p.target
         /\ Shape([p EXCEPT !.target = l]) /\ [p EXCEPT !.target = l].id = p.id
         /\ [p EXCEPT !.target = l].strategy = p.strategy /\ [p EXCEPT !.target = l].stop = p.stop
         /\ [p EXCEPT !.target = l].target = l
         /\ Shape([p EXCEPT !.trail = l]) /\ [p EXCEPT !.trail = l].id = p.id
         /\ [p EXCEPT !.trail = l].strategy = p.strategy /\ [p EXCEPT !.trail = l].stop = p.stop
         /\ [p EXCEPT !.trail = l].target = p.target
BY DEF Shape

LEMMA BareShape ==
  ASSUME NEW id, NEW s, NEW at
  PROVE  LET p == Bare(id, s, at) IN Shape(p) /\ p.id = id /\ p.strategy = s /\ p.stop = 0 /\ p.target = 0
BY DEF Bare, Shape

-----------------------------------------------------------------------------
(* The table *)

\* A position that is saved takes the place of the rows with its id, or is added.
LEMMA SaveInto ==
  ASSUME NEW S, rows \in Seq(S), NEW p
  PROVE  Save(p) \in Seq({Saved(p)} \cup {r \in S : r.id # p.id})
<1> DEFINE T == {Saved(p)} \cup {r \in S : r.id # p.id}
<1>0. DOMAIN rows = 1..Len(rows) /\ Len(rows) \in Nat /\ \A i \in 1..Len(rows) : rows[i] \in S
  OBVIOUS
<1>1. CASE \E i \in DOMAIN rows : rows[i].id = p.id
  <2>1. Save(p) = [i \in 1..Len(rows) |-> IF rows[i].id = p.id THEN Saved(p) ELSE rows[i]]
    BY <1>0, <1>1 DEF Save
  <2>2. \A i \in 1..Len(rows) : (IF rows[i].id = p.id THEN Saved(p) ELSE rows[i]) \in T
    BY <1>0
  <2> HIDE DEF T
  <2>3. [i \in 1..Len(rows) |-> IF rows[i].id = p.id THEN Saved(p) ELSE rows[i]] \in Seq(T)
    BY <1>0, <2>2
  <2> QED
    BY <2>1, <2>3 DEF T
<1>2. CASE ~\E i \in DOMAIN rows : rows[i].id = p.id
  <2>1. Save(p) = Append(rows, Saved(p))
    BY <1>2 DEF Save
  <2>2. \A i \in 1..Len(rows) : rows[i] \in T
    BY <1>0, <1>2
  <2>3. Saved(p) \in T
    OBVIOUS
  <2> HIDE DEF T
  <2>4. rows \in Seq(T)
    BY <1>0, <2>2
  <2>5. Append(rows, Saved(p)) \in Seq(T)
    BY <2>3, <2>4
  <2> QED
    BY <2>1, <2>5 DEF T
<1> QED
  BY <1>1, <1>2

\* Nothing is asked, or what was asked before, or something of the position that is saved.
SameAsked == asked'[Sole].id = asked[Sole].id /\ asked'[Sole].stop \in {asked[Sole].stop, Unsure}

LEMMA TableSaved ==
  ASSUME Table(rows), NEW p, Shape(p), rows' = Save(p), SameAsked \/ asked'[Sole].id = p.id,
         p.strategy = Sole => Stuck(p)'
  PROVE  Table(rows)'
<1>1. PICK S : rows \in Seq(S) /\ \A r \in S : Kept(r)
  BY DEF Table
<1> DEFINE T == {Saved(p)} \cup {r \in S : r.id # p.id}
<1>2. rows' \in Seq(T)
  BY <1>1, SaveInto
<1>3. PICK o : o = Saved(p)
  OBVIOUS
<1>4. Shape(o) /\ o.target = 0 /\ o.id = p.id /\ o.stop = p.stop /\ o.strategy = p.strategy
  BY <1>3, Levelled DEF Saved
<1>5. Kept(o)'
  BY <1>4 DEF Kept, Stuck
<1>6. ASSUME NEW r \in S, r.id # p.id PROVE Kept(r)'
  BY <1>1, <1>6 DEF Kept, SameAsked
<1>7. \A r \in T : Kept(r)'
  BY <1>3, <1>5, <1>6
<1> HIDE DEF T
<1> QED
  BY <1>2, <1>7 DEF Table

LEMMA TableStays ==
  ASSUME NEW q, Table(q), SameAsked \/ asked'[Sole].stop = Unsure
  PROVE  \E S : q \in Seq(S) /\ \A r \in S : Kept(r)'
<1>1. PICK S : q \in Seq(S) /\ \A r \in S : Kept(r)
  BY DEF Table
<1>2. \A r \in S : Kept(r)'
  BY <1>1 DEF Kept, SameAsked
<1> QED
  BY <1>1, <1>2

LEMMA TableRemoved ==
  ASSUME Table(rows), SameAsked \/ asked'[Sole].stop = Unsure, NEW k \in DOMAIN rows, rows' = RemoveAt(rows, k)
  PROVE  Table(rows)'
<1>1. PICK S : rows \in Seq(S) /\ \A r \in S : Kept(r)'
  BY TableStays
<1>2. k \in 1..Len(rows) /\ Len(rows) \in Nat
  BY <1>1
<1>3. SubSeq(rows, 1, k - 1) \in Seq(S) /\ SubSeq(rows, k + 1, Len(rows)) \in Seq(S)
  BY <1>1, <1>2
<1>4. rows' \in Seq(S)
  BY <1>3 DEF RemoveAt
<1> QED
  BY <1>1, <1>4 DEF Table

LEMMA LeastExists ==
  ASSUME NEW S, S \subseteq Nat, S # {}
  PROVE  Min(S) \in S
<1>1. PICK m \in S : \A y \in S : ~(<<y, m>> \in OpToRel(<, Nat))
  BY NatLessThanWellFounded, WFMin
<1>2. \A y \in S : m <= y
  <2> SUFFICES ASSUME NEW y \in S, y < m PROVE FALSE
    OBVIOUS
  <2>1. <<y, m>> \in OpToRel(<, Nat)
    BY DEF OpToRel
  <2> QED
    BY <1>1, <2>1
<1> QED
  BY <1>2 DEF Min

\* The row that start() puts into memory.
LEMMA Read ==
  ASSUME NEW read, Table(read), NEW s
  PROVE  /\ \A p, q \in Oldest(read, s) : p = q
         /\ \A p \in Oldest(read, s) : Kept(p) /\ p.strategy = s
<1>1. PICK S : read \in Seq(S) /\ \A r \in S : Kept(r)
  BY DEF Table
<1> DEFINE own == {i \in DOMAIN read : read[i].strategy = s}
<1>2. CASE own = {}
  BY <1>2 DEF Oldest
<1>3. CASE own # {}
  <2>1. Oldest(read, s) = {read[Min(own)]}
    BY <1>3 DEF Oldest
  <2>2. DOMAIN read = 1..Len(read) /\ Len(read) \in Nat
    BY <1>1
  <2>3. own \subseteq Nat
    BY <2>2
  <2> HIDE DEF own
  <2>4. Min(own) \in own
    BY <1>3, <2>3, LeastExists
  <2> USE DEF own
  <2>5. Min(own) \in own
    BY <2>4
  <2>6. Min(own) \in DOMAIN read /\ read[Min(own)].strategy = s
    BY <2>5
  <2>7. read[Min(own)] \in S
    BY <1>1, <2>2, <2>6
  <2> QED
    BY <1>1, <2>1, <2>6, <2>7
<1> QED
  BY <1>2, <1>3

-----------------------------------------------------------------------------
(* What several actions have in common *)

\* Known without what is listed.
KnownPos ==
    /\ \A p, q \in Own : p = q
    /\ \A s \in Strategies : \A p \in pos[Sole][s] : Shape(p) /\ p.strategy = s /\ (s = Sole => Stuck(p))

\* The manager puts p in the place of its position of a strategy.
LEMMA Placed ==
  ASSUME OneStrategy, Wired, KnownPos, NEW s \in Strategies, NEW p, Shape(p), p.strategy = s, s = Sole => Stuck(p)',
         pos' = [pos EXCEPT ![Sole][s] = {p}], s = Sole \/ asked' = asked
  PROVE  /\ DOMAIN pos' = {Sole} /\ DOMAIN pos'[Sole] = Strategies
         /\ KnownPos'
         /\ Own' = IF s = Sole THEN {p} ELSE Own
<1>1. /\ DOMAIN pos' = {Sole} /\ DOMAIN pos'[Sole] = Strategies
      /\ pos'[Sole][s] = {p}
      /\ \A t \in Strategies \ {s} : pos'[Sole][t] = pos[Sole][t]
  BY DEF Wired
<1>2. Own' = IF s = Sole THEN {p} ELSE Own
  BY <1>1, Alone DEF Own
<1>3. \A x, y \in Own' : x = y
  BY <1>2 DEF KnownPos
<1>4. ASSUME NEW t \in Strategies, NEW x \in pos'[Sole][t]
      PROVE  Shape(x) /\ x.strategy = t /\ (t = Sole => Stuck(x)')
  <2>1. CASE t = s
    BY <1>1, <1>4, <2>1
  <2>2. CASE t # s
    <3>1. x \in pos[Sole][t]
      BY <1>1, <1>4, <2>2
    <3>2. Shape(x) /\ x.strategy = t /\ (t = Sole => Stuck(x))
      BY <3>1 DEF KnownPos
    <3> QED
      BY <2>2, <3>2 DEF Stuck
  <2> QED
    BY <2>1, <2>2
<1> QED
  BY <1>1, <1>2, <1>3, <1>4 DEF KnownPos

\* The ids of a position's manager.
LEMMA OneId ==
  ASSUME NEW p, Own = {p}
  PROVE  OwnIds = {p.id}
BY DEF OwnIds

\* A level of the position is set: nothing else changes.
LEMMA LevelSet ==
  ASSUME OneStrategy, EInv, up, NEW o \in Own, NEW p, Shape(p), p.id = o.id, p.strategy = Sole,
         Put(Sole, p),
         asked' = [asked EXCEPT ![Sole] = asked'[Sole]], asked'[Sole].id = p.id, Stuck(p)',
         CopyOut(Sole) => \/ asked'[Sole].stop = Unsure /\ asked'[Sole].target \in {asked[Sole].target, Unsure}
                          \/ asked'[Sole].stop \in {asked[Sole].stop, Unsure} /\ asked'[Sole].target = Unsure,
         asked[Sole].id # p.id => (CopyOut(Sole) => asked'[Sole].stop = Unsure /\ asked'[Sole].target = Unsure),
         UNCHANGED <<up, left, scan, saving, reading>>
  PROVE  /\ DOMAIN pos' = {Sole} /\ DOMAIN pos'[Sole] = Strategies /\ DOMAIN asked' = {Sole}
         /\ Known' /\ Stored' /\ Own' # {} /\ OwnIds' = OwnIds
<1>1. pos' = [pos EXCEPT ![Sole][Sole] = {p}] /\ rows' = Save(p)
  BY DEF Put
<1>2. KnownPos
  BY DEF EInv, Known, KnownPos
<1>3. /\ DOMAIN pos' = {Sole} /\ DOMAIN pos'[Sole] = Strategies
      /\ KnownPos'
      /\ Own' = {p}
  BY <1>1, <1>2, Placed, Alone DEF EInv
<1>4. OwnIds' = OwnIds
  <2>1. Own = {o}
    BY <1>2 DEF KnownPos
  <2>2. OwnIds = {o.id}
    BY <2>1, OneId
  <2>3. OwnIds' = {p.id}
    BY <1>3 DEF OwnIds
  <2> QED
    BY <2>2, <2>3
<1>5. Table(rows)'
  BY <1>1, TableSaved DEF EInv, Stored
<1>6. ASSUME NEW x \in scan PROVE Shape(x) /\ x.strategy \in Strategies /\ (x.strategy = Sole => Stuck(x)')
  <2>1. Shape(x) /\ x.strategy \in Strategies /\ (x.strategy = Sole => Stuck(x))
    BY DEF EInv, Known
  <2>2. CASE x.strategy = Sole
    <3>1. CopyOut(Sole)
      BY <2>2, Alone DEF EInv, Wired, CopyOut, Listed
    <3> QED
      BY <2>1, <2>2, <3>1 DEF Stuck
  <2> QED
    BY <2>1, <2>2
<1>7. ASSUME NEW read \in reading[Sole] PROVE Table(read)'
  <2>1. CopyOut(Sole)
    BY DEF CopyOut
  <2>2. SameAsked \/ asked'[Sole].stop = Unsure
    BY <2>1 DEF SameAsked
  <2>3. Table(read)
    BY DEF EInv, Stored
  <2> QED
    BY <2>2, <2>3, TableStays DEF Table
<1>8. Known'
  BY <1>3, <1>6 DEF Known, KnownPos
<1>9. Stored'
  BY <1>5, <1>7 DEF Stored
<1>10. DOMAIN asked' = {Sole}
  BY DEF EInv, Wired
<1> QED
  BY <1>3, <1>4, <1>8, <1>9, <1>10

\* set_stop_loss() and set_take_profit() of the position.
LEMMA LevelsSet ==
  ASSUME OneStrategy, EInv, up, NEW o \in Own, NEW l, PutStop(Sole, o, l) \/ PutTarget(Sole, o, l),
         UNCHANGED <<up, left, scan, saving, reading>>
  PROVE  /\ DOMAIN pos' = {Sole} /\ DOMAIN pos'[Sole] = Strategies /\ DOMAIN asked' = {Sole}
         /\ Known' /\ Stored' /\ Own' # {} /\ OwnIds' = OwnIds
<1>0. Shape(o) /\ o.strategy = Sole /\ Stuck(o) /\ DOMAIN asked = {Sole}
  BY Alone DEF EInv, Known, Own, Wired
<1>1. CASE PutStop(Sole, o, l)
  <2>1. PICK p : p = [o EXCEPT !.stop = l]
    OBVIOUS
  <2>2. Shape(p) /\ p.id = o.id /\ p.strategy = Sole /\ p.stop = l /\ p.target = o.target
    <3>1. /\ Shape([o EXCEPT !.stop = l]) /\ [o EXCEPT !.stop = l].id = o.id
          /\ [o EXCEPT !.stop = l].strategy = o.strategy /\ [o EXCEPT !.stop = l].stop = l
          /\ [o EXCEPT !.stop = l].target = o.target
      BY <1>0 DEF Shape
    <3> QED
      BY <1>0, <2>1, <3>1
  <2>3. Put(Sole, p)
    BY <1>1, <2>1 DEF PutStop
  <2>4. PICK a : a = [id |-> o.id, stop |-> Asked(Sole, l), target |-> AskedBefore(Sole, o, asked[Sole].target)]
    OBVIOUS
  <2>5. a.id = o.id /\ a.stop = Asked(Sole, l) /\ a.target = AskedBefore(Sole, o, asked[Sole].target)
    BY <2>4
  <2>6. asked' = [asked EXCEPT ![Sole] = a]
    BY <1>1, <2>4 DEF PutStop
  <2>7. asked'[Sole] = a
    BY <1>0, <2>6
  <2>8. asked'[Sole].id = p.id /\ Stuck(p)'
    BY <1>0, <2>2, <2>5, <2>7 DEF Stuck, Asked, AskedBefore
  <2>9. /\ CopyOut(Sole) => asked'[Sole].stop = Unsure /\ asked'[Sole].target \in {asked[Sole].target, Unsure}
        /\ asked[Sole].id # p.id => (CopyOut(Sole) => asked'[Sole].stop = Unsure /\ asked'[Sole].target = Unsure)
    BY <2>2, <2>5, <2>7 DEF Asked, AskedBefore
  <2>10. asked' = [asked EXCEPT ![Sole] = asked'[Sole]]
    BY <2>6, <2>7
  <2> QED
    BY <2>2, <2>3, <2>8, <2>9, <2>10, LevelSet
<1>2. CASE PutTarget(Sole, o, l)
  <2>1. PICK p : p = [o EXCEPT !.target = l]
    OBVIOUS
  <2>2. Shape(p) /\ p.id = o.id /\ p.strategy = Sole /\ p.target = l /\ p.stop = o.stop
    <3>1. /\ Shape([o EXCEPT !.target = l]) /\ [o EXCEPT !.target = l].id = o.id
          /\ [o EXCEPT !.target = l].strategy = o.strategy /\ [o EXCEPT !.target = l].target = l
          /\ [o EXCEPT !.target = l].stop = o.stop
      BY <1>0 DEF Shape
    <3> QED
      BY <1>0, <2>1, <3>1
  <2>3. Put(Sole, p)
    BY <1>2, <2>1 DEF PutTarget
  <2>4. PICK a : a = [id |-> o.id, stop |-> AskedBefore(Sole, o, asked[Sole].stop), target |-> Asked(Sole, l)]
    OBVIOUS
  <2>5. a.id = o.id /\ a.stop = AskedBefore(Sole, o, asked[Sole].stop) /\ a.target = Asked(Sole, l)
    BY <2>4
  <2>6. asked' = [asked EXCEPT ![Sole] = a]
    BY <1>2, <2>4 DEF PutTarget
  <2>7. asked'[Sole] = a
    BY <1>0, <2>6
  <2>8. asked'[Sole].id = p.id /\ Stuck(p)'
    BY <1>0, <2>2, <2>5, <2>7 DEF Stuck, Asked, AskedBefore
  <2>9. /\ CopyOut(Sole) => asked'[Sole].target = Unsure /\ asked'[Sole].stop \in {asked[Sole].stop, Unsure}
        /\ asked[Sole].id # p.id => (CopyOut(Sole) => asked'[Sole].stop = Unsure /\ asked'[Sole].target = Unsure)
    BY <2>2, <2>5, <2>7 DEF Asked, AskedBefore
  <2>10. asked' = [asked EXCEPT ![Sole] = asked'[Sole]]
    BY <2>6, <2>7
  <2> QED
    BY <2>2, <2>3, <2>8, <2>9, <2>10, LevelSet
<1> QED
  BY <1>1, <1>2

\* A level is set and no event is published.
LEMMA LevelsStep ==
  ASSUME OneStrategy, EInv, up, NEW o \in Own, NEW l, PutStop(Sole, o, l) \/ PutTarget(Sole, o, l),
         UNCHANGED <<up, bus, reading>>, mixed' = mixed
  PROVE  EInv'
<1>1. /\ DOMAIN pos' = {Sole} /\ DOMAIN pos'[Sole] = Strategies /\ DOMAIN asked' = {Sole}
      /\ Known' /\ Stored' /\ Own' # {} /\ OwnIds' = OwnIds
  BY LevelsSet DEF bus
<1>2. Wired'
  BY <1>1 DEF EInv, Wired, bus
<1>3. Ordered'
  BY <1>1 DEF EInv, Ordered, bus
<1> QED
  BY <1>1, <1>2, <1>3 DEF EInv

\* Nothing changes in memory, in the table and in what is known of either.
LEMMA Untouched ==
  ASSUME EInv, UNCHANGED <<pos, rows, asked, reading, scan>>
  PROVE  Known' /\ Stored' /\ Own' = Own /\ OwnIds' = OwnIds
<1>1. Own' = Own /\ OwnIds' = OwnIds
  BY DEF Own, OwnIds
<1>2. \A p : Stuck(p)' <=> Stuck(p)
  BY DEF Stuck
<1>3. \A p : Kept(p)' <=> Kept(p)
  BY DEF Kept
<1>4. Known'
  BY <1>1, <1>2 DEF EInv, Known
<1>5. Stored'
  BY <1>3 DEF EInv, Stored, Table
<1> QED
  BY <1>1, <1>4, <1>5

\* An event is published, and only the levels may change.
LEMMA PublishStep ==
  ASSUME OneStrategy, EInv, up, NEW e, queue' = Append(queue, e),
         DOMAIN pos' = {Sole}, DOMAIN pos'[Sole] = Strategies, DOMAIN asked' = {Sole}, Known', Stored', OwnIds' = OwnIds,
         UNCHANGED <<up, left, scan, saving, reading>>,
         e.type \in {"buy", "sell"} => e.strategy = Sole,
         \/ mixed' = mixed /\ (e.type = "price" \/ (e.type = "sell" /\ Own # {}) \/ (e.type = "buy" /\ Own = {}))
         \/ Sole \in mixed'
  PROVE  EInv'
<1>0. IsSequence(queue)
  BY DEF EInv, Wired
<1>1. /\ IsSequence(queue') /\ Len(queue) \in Nat /\ Len(queue') = Len(queue) + 1
      /\ \A i \in 1..Len(queue) : queue'[i] = queue[i]
      /\ queue'[Len(queue) + 1] = e
      /\ queue' # <<>>
      /\ queue # <<>> => Head(queue') = Head(queue)
  BY <1>0, Appended
<1>2. \A i \in 1..Len(queue') : queue'[i].type \in {"buy", "sell"} => queue'[i].strategy = Sole
  <2> SUFFICES ASSUME NEW i \in 1..Len(queue'), queue'[i].type \in {"buy", "sell"} PROVE queue'[i].strategy = Sole
    OBVIOUS
  <2>1. i \in 1..Len(queue) \/ i = Len(queue) + 1
    BY <1>1
  <2> QED
    BY <1>1, <2>1 DEF EInv, Wired
<1>3. Wired'
  BY <1>1, <1>2 DEF EInv, Wired
<1>5. ASSUME Sole \notin mixed, e.type = "price" \/ (e.type = "sell" /\ Own # {}) \/ (e.type = "buy" /\ Own = {})
      PROVE  Chain(queue', OwnIds)
  <2>1. Chain(queue, OwnIds)
    BY <1>5 DEF EInv, Ordered
  <2>2. Own = {} <=> OwnIds = {}
    BY DEF OwnIds
  <2>3. Kind(e) \in {"price", "none"} \/ (Kind(e) = "sell" /\ OwnIds # {}) \/ (Kind(e) = "buy" /\ OwnIds = {})
    BY <1>5, <2>2 DEF Kind
  <2> QED
    BY <1>0, <2>1, <2>3, ChainAppend
<1>6. Ordered'
  BY <1>5 DEF EInv, Ordered
<1> QED
  BY <1>3, <1>6 DEF EInv

-----------------------------------------------------------------------------
(* Requests and orders *)

\* Requests and a new regime set levels.
LEMMA Requests ==
  ASSUME OneStrategy, EInv, (\E l : SetStop(Sole, l) \/ SetTarget(Sole, l)) \/ Tighten(Sole)
  PROVE  EInv'
<1>1. /\ up /\ UNCHANGED <<up, bus, reading>> /\ mixed' = mixed
      /\ \E o \in Own : \E l : PutStop(Sole, o, l) \/ PutTarget(Sole, o, l)
  BY DEF SetStop, SetTarget, Tighten, Own
<1> QED
  BY <1>1, LevelsStep

LEMMA Orders ==
  ASSUME OneStrategy, EInv,
         Sell(Sole) \/ BuyDecided(Sole) \/ BuyFails(Sole) \/ Buy(Sole) \/ BuyTarget(Sole) \/ BuyTrail(Sole)
  PROVE  EInv'
<1> DEFINE sell == Filled("sell", Sole)
           buy == Filled("buy", Sole)
<1>a. sell.type = "sell" /\ sell.strategy = Sole /\ buy.type = "buy" /\ buy.strategy = Sole
  BY DEF Filled
<1>1. CASE Sell(Sole) \/ (Buy(Sole) /\ Own = {})
  <2>1. /\ up /\ UNCHANGED <<up, pos, rows, asked, left, scan, saving, reading>> /\ mixed' = mixed
        /\ (queue' = Append(queue, sell) /\ Own # {}) \/ (queue' = Append(queue, buy) /\ Own = {})
    BY <1>1 DEF Sell, Buy, Publish, Own
  <2>2. Known' /\ Stored' /\ OwnIds' = OwnIds
    BY <2>1, Untouched
  <2>3. DOMAIN pos' = {Sole} /\ DOMAIN pos'[Sole] = Strategies /\ DOMAIN asked' = {Sole}
    BY <2>1 DEF EInv, Wired
  <2> HIDE DEF sell, buy
  <2> QED
    BY <1>a, <2>1, <2>2, <2>3, PublishStep
<1>2. CASE BuyDecided(Sole) \/ BuyFails(Sole) \/ BuyTrail(Sole) \/ (BuyTarget(Sole) /\ Own = {})
  <2>1. UNCHANGED <<up, pos, rows, asked, queue, left, scan, saving, reading>> /\ mixed' = mixed
    BY <1>2 DEF BuyDecided, BuyFails, BuyTrail, BuyTarget, bus, Own
  <2>2. Known' /\ Stored' /\ Own' = Own /\ OwnIds' = OwnIds
    BY <2>1, Untouched
  <2> QED
    BY <2>1, <2>2 DEF EInv, Wired, Ordered
<1>3. CASE BuyTarget(Sole) /\ Own # {}
  <2>1. up /\ UNCHANGED <<up, bus, reading>> /\ mixed' = mixed /\ \E o \in Own : \E l : PutTarget(Sole, o, l)
    BY <1>3 DEF BuyTarget, Own
  <2> QED
    BY <2>1, LevelsStep
<1>4. CASE Buy(Sole) /\ Own # {}
  <2>1. PICK o \in Own : PutStop(Sole, o, price - 1)
    BY <1>4 DEF Buy, Own
  <2>2. up /\ queue' = Append(queue, buy) /\ UNCHANGED <<up, left, scan, saving, reading>> /\ Sole \in mixed'
    BY <1>4 DEF Buy, Publish, Own
  <2>3. /\ DOMAIN pos' = {Sole} /\ DOMAIN pos'[Sole] = Strategies /\ DOMAIN asked' = {Sole}
        /\ Known' /\ Stored' /\ Own' # {} /\ OwnIds' = OwnIds
    BY <2>1, <2>2, LevelsSet
  <2> HIDE DEF buy
  <2> QED
    BY <1>a, <2>2, <2>3, PublishStep
<1> QED
  BY <1>1, <1>2, <1>3, <1>4

-----------------------------------------------------------------------------
(* The bus *)

\* The only manager is done with the first event of q.
LEMMA Done ==
  ASSUME OneStrategy, left = Order, NEW q, Handled(q)
  PROVE  left' = Order /\ queue' = Tail(q)
<1>0. Len(left) = 1
  BY Alone, Zenon
<1>1. ~(Len(left) > 1)
  BY <1>0
<1> QED
  BY <1>1 DEF Handled

\* What is left of a bus without its first event.
LEMMA RestOfBus ==
  ASSUME Wired, queue # <<>>
  PROVE  /\ IsSequence(Tail(queue)) /\ Head(queue) = queue[1] /\ 1 \in 1..Len(queue)
         /\ \A i \in 1..Len(Tail(queue)) :
               Tail(queue)[i].type \in {"buy", "sell"} => Tail(queue)[i].strategy = Sole
BY TakenOff DEF Wired

\* A fill opens the position, or closes it, or changes nothing.
LEMMA Fills ==
  ASSUME OneStrategy, EInv, HandleFill
  PROVE  EInv'
<1>1. /\ up /\ queue # <<>> /\ Head(queue).type \in {"buy", "sell"} /\ left = Order /\ scan = {} /\ saving = {}
      /\ DOMAIN pos = {Sole} /\ DOMAIN pos[Sole] = Strategies /\ DOMAIN asked = {Sole}
      /\ UNCHANGED <<up, scan, saving, reading>> /\ mixed' = mixed
  BY DEF HandleFill, EInv, Wired
<1>2. left' = Order /\ queue' = Tail(queue)
  BY <1>1, Done DEF HandleFill
<1> DEFINE e == Head(queue)
<1>3. e.strategy = Sole /\ Head(left) = Sole
  BY <1>1, RestOfBus, Alone DEF EInv, Wired
<1>4. /\ IsSequence(queue')
      /\ \A i \in 1..Len(queue') : queue'[i].type \in {"buy", "sell"} => queue'[i].strategy = Sole
  BY <1>1, <1>2, RestOfBus DEF EInv
<1>5. /\ e.type = "buy" => OnBuyFilled(Sole, e)
      /\ e.type = "sell" => OnSellFilled(Sole, e)
  BY <1>1, <1>3 DEF HandleFill
<1>6. Own = {} <=> OwnIds = {}
  BY DEF OwnIds
<1>7. IsSequence(queue) /\ (Sole \notin mixed => Chain(queue, OwnIds))
  BY DEF EInv, Wired, Ordered
<1>a. Kind(e) = e.type
  BY <1>1 DEF Kind
<1>b. KnownPos
  BY DEF EInv, Known, KnownPos
<1> HIDE DEF e
<1>8. Sole \notin mixed =>
         /\ Chain(queue', OwnIds)
         /\ e.type = "buy" /\ OwnIds = {} => \A id : Chain(queue', {id})
         /\ e.type = "sell" /\ OwnIds # {} => Chain(queue', {})
  BY <1>1, <1>2, <1>7, <1>a, ChainTail DEF e
<1>9. ASSUME DOMAIN pos' = {Sole}, DOMAIN pos'[Sole] = Strategies, DOMAIN asked' = {Sole}, KnownPos', Stored',
             Sole \notin mixed => Chain(queue', OwnIds')
      PROVE  EInv'
  <2>1. Wired'
    BY <1>1, <1>2, <1>4, <1>9 DEF EInv, Wired
  <2>2. Known' /\ Ordered'
    BY <1>1, <1>9 DEF Known, KnownPos, Ordered
  <2> QED
    BY <1>9, <2>1, <2>2 DEF EInv
<1>10. CASE e.type = "buy" /\ Own = {}
  <2>1. PICK id : id = (CHOOSE i \in FreeIds : TRUE)
    OBVIOUS
  <2>2. id \in FreeIds
    BY <1>3, <1>5, <1>10, <2>1 DEF OnBuyFilled, Own
  <2>3. PICK p : p = Bare(id, Sole, e.at)
    OBVIOUS
  <2>4. /\ pos' = [pos EXCEPT ![Sole][Sole] = {p}] /\ rows' = Save(p)
        /\ asked' = [asked EXCEPT ![Sole] = [id |-> p.id, stop |-> 0, target |-> 0]]
    BY <1>3, <1>5, <1>10, <2>1, <2>3 DEF OnBuyFilled, Opened, Own
  <2>5. Shape(p) /\ p.id = id /\ p.strategy = Sole /\ p.stop = 0 /\ p.target = 0
    BY <2>3, BareShape
  <2>6. DOMAIN asked' = {Sole} /\ asked'[Sole] = [id |-> id, stop |-> 0, target |-> 0]
    BY <1>1, <2>4, <2>5
  <2>7. Stuck(p)'
    BY <2>5, <2>6 DEF Stuck
  <2>8. /\ DOMAIN pos' = {Sole} /\ DOMAIN pos'[Sole] = Strategies
        /\ KnownPos' /\ Own' = {p}
    BY <1>b, <2>4, <2>5, <2>7, Placed, Alone DEF EInv
  <2>9. Table(rows)'
    BY <2>4, <2>5, <2>6, <2>7, TableSaved DEF EInv, Stored
  <2>10. ASSUME NEW read \in reading[Sole] PROVE Table(read)'
    <3>1. PICK S : read \in Seq(S) /\ \A r \in S : Kept(r)
      BY DEF EInv, Stored, Table
    <3> DEFINE T == Range(read)
    <3>2. read \in Seq(T)
      BY <3>1 DEF Range
    <3>3. T \subseteq S
      BY <3>1 DEF Range
    <3>4. \A r \in T : r.id # id
      <4> DEFINE tables == {rows} \cup (UNION {reading[s] : s \in Managers})
                   known == (UNION {pos[m][s] : m \in Managers, s \in Strategies})
                           \cup (UNION {Range(r) : r \in tables})
      <4>1. read \in tables
        BY Alone
      <4>2. T \subseteq known
        BY <4>1
      <4>3. id \notin {x.id : x \in known}
        BY <2>2 DEF FreeIds
      <4> HIDE DEF known, T
      <4> QED
        BY <4>2, <4>3
    <3>5. \A r \in T : Kept(r)'
      BY <2>6, <3>1, <3>3, <3>4 DEF Kept
    <3> HIDE DEF T
    <3> QED
      BY <3>2, <3>5 DEF Table
  <2>11. Stored'
    BY <1>1, <2>9, <2>10 DEF Stored
  <2>12. Sole \notin mixed => Chain(queue', OwnIds')
    <3>1. OwnIds' = {id}
      BY <2>5, <2>8 DEF OwnIds
    <3> QED
      BY <1>6, <1>8, <1>10, <3>1
  <2> QED
    BY <1>9, <2>6, <2>8, <2>11, <2>12
<1>11. CASE e.type = "sell"
  <2>1. /\ pos' = [pos EXCEPT ![Sole][Sole] = {}] /\ asked' = [asked EXCEPT ![Sole] = Nothing]
        /\ rows' = LET closed == {i \in DOMAIN rows : \E o \in Own : o.id = rows[i].id}
                   IN IF closed = {} THEN rows ELSE RemoveAt(rows, Min(closed))
    BY <1>3, <1>5, <1>11 DEF OnSellFilled, Own
  <2>2. /\ DOMAIN pos' = {Sole} /\ DOMAIN pos'[Sole] = Strategies /\ Own' = {}
        /\ \A s \in Strategies \ {Sole} : pos'[Sole][s] = pos[Sole][s]
    BY <1>1, <2>1, Alone DEF Own
  <2>3. DOMAIN asked' = {Sole} /\ asked'[Sole] = Nothing
    BY <1>1, <2>1
  <2>4. KnownPos'
    BY <1>b, <2>2 DEF KnownPos, Own
  <2>5. asked'[Sole].stop = Unsure
    BY <2>3 DEF Nothing
  <2>6. Table(rows)'
    <3> DEFINE closed == {i \in DOMAIN rows : \E o \in Own : o.id = rows[i].id}
    <3>1. CASE closed = {}
      BY <2>1, <2>5, <3>1, TableStays DEF EInv, Stored, Table
    <3>2. CASE closed # {}
      <4>1. rows' = RemoveAt(rows, Min(closed))
        BY <2>1, <3>2
      <4>2. closed \subseteq DOMAIN rows /\ DOMAIN rows \subseteq Nat
        BY DEF EInv, Stored, Table
      <4> HIDE DEF closed
      <4>3. Min(closed) \in closed
        BY <3>2, <4>2, LeastExists
      <4> QED
        BY <2>5, <4>1, <4>2, <4>3, TableRemoved DEF EInv, Stored
    <3> QED
      BY <3>1, <3>2
  <2>7. \A read \in reading[Sole] : Table(read)'
    BY <2>5, TableStays DEF EInv, Stored, Table
  <2>8. Stored'
    BY <1>1, <2>6, <2>7 DEF Stored
  <2>9. Sole \notin mixed => Chain(queue', OwnIds')
    <3>1. OwnIds' = {}
      BY <2>2 DEF OwnIds
    <3>2. CASE OwnIds = {}
      BY <1>8, <3>1, <3>2
    <3>3. CASE OwnIds # {}
      BY <1>8, <1>11, <3>1, <3>3
    <3> QED
      BY <3>2, <3>3
  <2> QED
    BY <1>9, <2>2, <2>3, <2>4, <2>8, <2>9
<1>12. CASE e.type = "buy" /\ Own # {}
  <2>1. UNCHANGED <<pos, rows, asked, reading, scan>>
    BY <1>1, <1>3, <1>5, <1>12 DEF OnBuyFilled, Own
  <2>2. Known' /\ Stored' /\ OwnIds' = OwnIds
    BY <2>1, Untouched
  <2>3. KnownPos'
    BY <2>2 DEF Known, KnownPos
  <2> QED
    BY <1>1, <1>8, <1>9, <2>1, <2>2, <2>3
<1> QED
  BY <1>1, <1>10, <1>11, <1>12 DEF e

\* A market tick takes one of the positions: its trailing stop moves, its levels stay.
LEMMA Updates ==
  ASSUME OneStrategy, EInv, up, NEW p, Shape(p), p.strategy \in Strategies, p.strategy = Sole => Stuck(p),
         NEW now, Update(Sole, p, now), UNCHANGED <<asked, reading>>
  PROVE  /\ DOMAIN pos' = {Sole} /\ DOMAIN pos'[Sole] = Strategies
         /\ KnownPos' /\ Stored'
         /\ \E n : saving' = {[old |-> p, new |-> n]} /\ n.id = p.id /\ n.strategy = p.strategy
         /\ OwnIds' = IF p.strategy = Sole THEN {p.id} ELSE OwnIds
<1>1. PICK n : n = Copied(p, trailing[Sole][p.strategy], now)
  OBVIOUS
<1>2. Shape(n) /\ n.id = p.id /\ n.strategy = p.strategy /\ n.stop = p.stop /\ n.target = p.target
  BY <1>1, Levelled DEF Copied
<1>3. pos' = [pos EXCEPT ![Sole][p.strategy] = {n}] /\ rows' = Save(n) /\ saving' = {[old |-> p, new |-> n]}
  BY <1>1 DEF Update
<1>4. p.strategy = Sole => Stuck(n)'
  BY <1>2 DEF Stuck
<1>5. KnownPos
  BY DEF EInv, Known, KnownPos
<1>6. /\ DOMAIN pos' = {Sole} /\ DOMAIN pos'[Sole] = Strategies
      /\ KnownPos' /\ Own' = IF p.strategy = Sole THEN {n} ELSE Own
  BY <1>2, <1>3, <1>4, <1>5, Placed DEF EInv
<1>7. OwnIds' = IF p.strategy = Sole THEN {p.id} ELSE OwnIds
  BY <1>2, <1>6 DEF OwnIds
<1>8. Table(rows)'
  BY <1>2, <1>3, <1>4, TableSaved DEF EInv, Stored, SameAsked
<1>9. \A read \in reading[Sole] : Table(read)'
  BY TableStays DEF EInv, Stored, Table, SameAsked
<1>10. Stored'
  BY <1>8, <1>9 DEF Stored
<1> QED
  BY <1>2, <1>3, <1>6, <1>7, <1>10

LEMMA Ticks ==
  ASSUME OneStrategy, EInv, HandleTick
  PROVE  EInv'
<1>1. /\ up /\ queue # <<>> /\ Head(queue).type = "price" /\ left = Order /\ saving = {} /\ scan = {}
      /\ UNCHANGED <<up, asked, reading>> /\ mixed' = mixed /\ Head(left) = Sole
  BY Alone DEF HandleTick, EInv, Wired
<1> DEFINE listed == UNION {pos[Sole][s] : s \in Strategies}
<1>2. CASE listed = {}
  <2>1. Handled(queue) /\ UNCHANGED <<pos, rows, scan, saving>>
    BY <1>1, <1>2 DEF HandleTick
  <2>2. left' = Order /\ queue' = Tail(queue)
    BY <1>1, <2>1, Done
  <2>3. /\ IsSequence(queue')
        /\ \A i \in 1..Len(queue') : queue'[i].type \in {"buy", "sell"} => queue'[i].strategy = Sole
    BY <1>1, <2>2, RestOfBus DEF EInv
  <2>4. Sole \notin mixed => Chain(queue', OwnIds)
    BY <1>1, <2>2, ChainTail DEF EInv, Wired, Ordered
  <2>5. Known' /\ Stored' /\ Own' = Own /\ OwnIds' = OwnIds
    BY <1>1, <2>1, Untouched
  <2> QED
    BY <1>1, <2>1, <2>2, <2>3, <2>4, <2>5 DEF EInv, Wired, Ordered
<1>3. CASE listed # {}
  <2>1. PICK p \in listed : Update(Sole, p, Head(queue).at) /\ scan' = listed \ {p}
    BY <1>1, <1>3 DEF HandleTick
  <2>2. queue' = queue /\ left' = left
    BY <1>1, <1>3 DEF HandleTick
  <2>3. \A x \in listed : Shape(x) /\ x.strategy \in Strategies /\ (x.strategy = Sole => Stuck(x) /\ x \in Own)
    BY DEF EInv, Known, Own
  <2>4. Shape(p) /\ p.strategy \in Strategies /\ (p.strategy = Sole => Stuck(p) /\ p \in Own)
    BY <2>3
  <2>5. /\ DOMAIN pos' = {Sole} /\ DOMAIN pos'[Sole] = Strategies
        /\ KnownPos' /\ Stored'
        /\ \E n : saving' = {[old |-> p, new |-> n]} /\ n.id = p.id /\ n.strategy = p.strategy
        /\ OwnIds' = IF p.strategy = Sole THEN {p.id} ELSE OwnIds
    BY <1>1, <2>1, <2>4, Updates
  <2>a. \A x \in scan' : Shape(x) /\ x.strategy \in Strategies /\ (x.strategy = Sole => Stuck(x)' /\ x \in Own)
    BY <1>1, <2>1, <2>3 DEF Stuck
  <2>b. \A x \in Own : OwnIds = {x.id}
    BY DEF EInv, Known, OwnIds
  <2>6. OwnIds' = OwnIds
    BY <2>4, <2>5, <2>b
  <2> HIDE DEF listed
  <2>7. Wired'
    BY <1>1, <2>2, <2>5 DEF EInv, Wired
  <2>8. Known'
    BY <2>5, <2>a DEF Known, KnownPos
  <2>9. Ordered'
    <3>1. \A c \in saving' : c.new.strategy = Sole => OwnIds = {c.new.id}
      BY <2>4, <2>5, <2>b
    <3>2. \A x \in scan' : x.strategy = Sole => OwnIds = {x.id}
      BY <2>a, <2>b
    <3> QED
      BY <1>1, <2>2, <2>6, <3>1, <3>2 DEF EInv, Ordered
  <2> QED
    BY <2>5, <2>7, <2>8, <2>9 DEF EInv
<1> QED
  BY <1>2, <1>3

\* A position is saved: a level that is reached is published as a trigger of this position, and
\* the next one is taken.
LEMMA Saves ==
  ASSUME OneStrategy, EInv, HandleSaved
  PROVE  EInv'
<1>1. /\ up /\ queue # <<>> /\ Head(queue).type = "price" /\ left = Order /\ Head(left) = Sole
      /\ UNCHANGED <<up, asked, reading>> /\ mixed' = mixed
  BY Alone DEF HandleSaved, EInv, Wired
<1>2. PICK c \in saving : \E q :
         /\ q = queue \/ q = Append(queue, [type |-> "exit", strategy |-> c.new.strategy, id |-> c.new.id])
         /\ \/ scan = {} /\ Handled(q) /\ saving' = {} /\ UNCHANGED <<pos, rows, scan>>
            \/ \E p \in scan : /\ Update(Sole, p, Head(queue).at) /\ scan' = scan \ {p}
                               /\ queue' = q /\ left' = left
  BY <1>1 DEF HandleSaved
<1>3. PICK q :
         /\ q = queue \/ q = Append(queue, [type |-> "exit", strategy |-> c.new.strategy, id |-> c.new.id])
         /\ \/ scan = {} /\ Handled(q) /\ saving' = {} /\ UNCHANGED <<pos, rows, scan>>
            \/ \E p \in scan : /\ Update(Sole, p, Head(queue).at) /\ scan' = scan \ {p}
                               /\ queue' = q /\ left' = left
  BY <1>2
<1> DEFINE e == [type |-> "exit", strategy |-> c.new.strategy, id |-> c.new.id]
<1>4. /\ e.type = "exit" /\ Kind(e) = (IF c.new.strategy = Sole THEN "exit" ELSE "none")
      /\ e.id = c.new.id
  BY DEF Kind
<1> HIDE DEF e
<1>5. q = queue \/ q = Append(queue, e)
  BY <1>3 DEF e
<1>6. IsSequence(queue) /\ (Sole \notin mixed => Chain(queue, OwnIds) /\ (c.new.strategy = Sole => OwnIds = {c.new.id}))
  BY DEF EInv, Wired, Ordered
<1>7. /\ IsSequence(q) /\ q # <<>> /\ Head(q).type = "price"
      /\ \A i \in 1..Len(q) : q[i].type \in {"buy", "sell"} => q[i].strategy = Sole
      /\ Sole \notin mixed => Chain(q, OwnIds)
  <2>1. CASE q = queue
    BY <1>1, <1>6, <2>1 DEF EInv, Wired
  <2>2. CASE q = Append(queue, e)
    <3>1. /\ IsSequence(q) /\ q # <<>> /\ Len(queue) \in Nat /\ Len(q) = Len(queue) + 1
          /\ \A i \in 1..Len(queue) : q[i] = queue[i]
          /\ q[Len(queue) + 1] = e /\ Head(q) = Head(queue)
      BY <1>1, <1>6, <2>2, Appended
    <3>2. ASSUME NEW i \in 1..Len(q), q[i].type \in {"buy", "sell"} PROVE q[i].strategy = Sole
      <4>1. i \in 1..Len(queue)
        BY <1>4, <3>1, <3>2
      <4> QED
        BY <3>1, <3>2, <4>1 DEF EInv, Wired
    <3>3. Sole \notin mixed => Chain(q, OwnIds)
      BY <1>4, <1>6, <2>2, ChainAppend
    <3> QED
      BY <1>1, <3>1, <3>2, <3>3
  <2> QED
    BY <1>5, <2>1, <2>2
<1>8. CASE scan = {} /\ Handled(q) /\ saving' = {} /\ UNCHANGED <<pos, rows, scan>>
  <2>1. left' = Order /\ queue' = Tail(q)
    BY <1>1, <1>8, Done
  <2>2. /\ IsSequence(Tail(q)) /\ Len(q) \in Nat \ {0} /\ Len(Tail(q)) = Len(q) - 1
        /\ \A i \in 1..Len(Tail(q)) : Tail(q)[i] = q[i + 1]
    BY <1>7, TakenOff
  <2>3. \A i \in 1..Len(Tail(q)) : i + 1 \in 1..Len(q)
    BY <2>2
  <2>4. /\ IsSequence(queue')
        /\ \A i \in 1..Len(queue') : queue'[i].type \in {"buy", "sell"} => queue'[i].strategy = Sole
    BY <1>7, <2>1, <2>2, <2>3
  <2>5. Sole \notin mixed => Chain(queue', OwnIds)
    BY <1>7, <2>1, ChainTail
  <2>6. Known' /\ Stored' /\ Own' = Own /\ OwnIds' = OwnIds
    BY <1>1, <1>8, Untouched
  <2> QED
    BY <1>1, <1>8, <2>1, <2>4, <2>5, <2>6 DEF EInv, Wired, Ordered
<1>9. ASSUME NEW p \in scan, Update(Sole, p, Head(queue).at), scan' = scan \ {p}, queue' = q, left' = left
      PROVE  EInv'
  <2>1. Shape(p) /\ p.strategy \in Strategies /\ (p.strategy = Sole => Stuck(p))
    BY DEF EInv, Known
  <2>2. /\ DOMAIN pos' = {Sole} /\ DOMAIN pos'[Sole] = Strategies
        /\ KnownPos' /\ Stored'
        /\ \E n : saving' = {[old |-> p, new |-> n]} /\ n.id = p.id /\ n.strategy = p.strategy
        /\ OwnIds' = IF p.strategy = Sole THEN {p.id} ELSE OwnIds
    BY <1>1, <1>9, <2>1, Updates
  <2>3. Wired'
    BY <1>1, <1>7, <1>9, <2>2 DEF EInv, Wired
  <2>4. Known'
    <3>1. \A x \in scan' : Shape(x) /\ x.strategy \in Strategies /\ (x.strategy = Sole => Stuck(x)')
      BY <1>1, <1>9 DEF EInv, Known, Stuck
    <3> QED
      BY <2>2, <3>1 DEF Known, KnownPos
  <2>5. Ordered'
    <3>1. Sole \notin mixed => OwnIds' = OwnIds
      BY <2>2 DEF EInv, Ordered
    <3>2. Sole \notin mixed => \A x \in saving' : x.new.strategy = Sole => OwnIds = {x.new.id}
      BY <2>2 DEF EInv, Ordered
    <3> QED
      BY <1>1, <1>7, <1>9, <3>1, <3>2 DEF EInv, Ordered
  <2> QED
    BY <2>2, <2>3, <2>4, <2>5 DEF EInv
<1> QED
  BY <1>3, <1>8, <1>9

\* A trigger sells the position or comes to nothing.
LEMMA Exits ==
  ASSUME OneStrategy, EInv, ExitEnds \/ ExitFills(Sole)
  PROVE  EInv'
<1>1. /\ up /\ queue # <<>> /\ Head(queue).type = "exit"
      /\ UNCHANGED <<up, pos, rows, left, scan, saving, reading, asked>> /\ mixed' = mixed
  BY DEF ExitEnds, ExitFills, AtExit
<1>2. saving = {} /\ scan = {}
  BY <1>1 DEF EInv, Wired
<1> DEFINE q == Tail(queue)
<1>3. /\ IsSequence(q)
      /\ \A i \in 1..Len(q) : q[i].type \in {"buy", "sell"} => q[i].strategy = Sole
  BY <1>1, RestOfBus DEF EInv
<1>4. Sole \notin mixed => Chain(q, OwnIds)
  BY <1>1, ChainTail DEF EInv, Wired, Ordered
<1>5. Own = {} <=> OwnIds = {}
  BY DEF OwnIds
<1>6. queue' = q \/ (Own # {} /\ queue' = Append(q, Filled("sell", Sole)))
  BY DEF ExitEnds, ExitFills, Own
<1>7. Known' /\ Stored' /\ Own' = Own /\ OwnIds' = OwnIds
  BY <1>1, Untouched
<1> DEFINE e == Filled("sell", Sole)
<1>8. e.type = "sell" /\ e.strategy = Sole /\ Kind(e) = "sell"
  BY DEF Filled, Kind
<1> HIDE DEF q, e
<1>9. /\ IsSequence(queue')
      /\ \A i \in 1..Len(queue') : queue'[i].type \in {"buy", "sell"} => queue'[i].strategy = Sole
      /\ Sole \notin mixed => Chain(queue', OwnIds)
  <2>1. CASE queue' = q
    BY <1>3, <1>4, <2>1
  <2>2. CASE Own # {} /\ queue' = Append(q, e)
    <3>1. /\ IsSequence(queue') /\ Len(q) \in Nat /\ Len(queue') = Len(q) + 1
          /\ \A i \in 1..Len(q) : queue'[i] = q[i]
          /\ queue'[Len(q) + 1] = e
      BY <1>3, <2>2, Appended
    <3>2. ASSUME NEW i \in 1..Len(queue'), queue'[i].type \in {"buy", "sell"} PROVE queue'[i].strategy = Sole
      <4>1. i \in 1..Len(q) \/ i = Len(q) + 1
        BY <3>1
      <4> QED
        BY <1>3, <1>8, <3>1, <3>2, <4>1
    <3>3. Sole \notin mixed => Chain(queue', OwnIds)
      BY <1>3, <1>4, <1>5, <1>8, <2>2, ChainAppend
    <3> QED
      BY <3>1, <3>2, <3>3
  <2> QED
    BY <1>6, <2>1, <2>2 DEF e
<1> QED
  BY <1>1, <1>2, <1>7, <1>9 DEF EInv, Wired, Ordered

-----------------------------------------------------------------------------
(* Crash and start *)

LEMMA Crashes ==
  ASSUME OneStrategy, EInv, Crash
  PROVE  EInv'
<1>1. /\ up' = FALSE /\ pos' = Empty /\ queue' = <<>> /\ left' = Order /\ scan' = {} /\ saving' = {}
      /\ reading' = [s \in Managers |-> {}] /\ UNCHANGED <<rows, asked>> /\ mixed' = {}
  BY DEF Crash
<1>2. /\ pos' = [m \in {Sole} |-> [s \in Strategies |-> {}]] /\ Own' = {} /\ OwnIds' = {}
      /\ reading' = [s \in {Sole} |-> {}]
  BY <1>1, Alone DEF Empty, Own, OwnIds
<1>3. IsSequence(<<>>) /\ Len(<<>>) = 0
  BY DEF IsSequence
<1>4. Wired'
  <2>1. DOMAIN pos' = {Sole} /\ DOMAIN pos'[Sole] = Strategies /\ DOMAIN reading' = {Sole} /\ reading'[Sole] = {}
    BY <1>2
  <2>2. IsSequence(queue') /\ \A i \in 1..Len(queue') : FALSE
    BY <1>1, <1>3
  <2>3. DOMAIN asked' = {Sole}
    BY <1>1 DEF EInv, Wired
  <2> QED
    BY <1>1, <1>2, <2>1, <2>2, <2>3 DEF Wired
<1>5. Ordered'
  BY <1>1, ChainEmpty DEF Ordered
<1>6. Known'
  BY <1>1, <1>2 DEF Known
<1>7. Stored'
  <2>1. Table(rows)'
    BY <1>1, TableStays DEF EInv, Stored, Table, SameAsked
  <2> QED
    BY <1>2, <2>1 DEF Stored
<1> QED
  BY <1>4, <1>5, <1>6, <1>7 DEF EInv

LEMMA Boots ==
  ASSUME OneStrategy, EInv, Boot
  PROVE  EInv'
<1>1. /\ ~up /\ up' = TRUE /\ queue = <<>> /\ saving = {} /\ scan = {} /\ reading[Sole] = {}
      /\ UNCHANGED <<rows, queue, left, scan, saving, reading>> /\ mixed' = mixed
  BY DEF Boot, bus, EInv, Wired
<1>2. pos' = [m \in {Sole} |-> [s \in Strategies |-> Oldest(rows, s)]]
  BY Alone DEF Boot
<1>3. asked' = [s \in {Sole} |-> Forgotten(asked[s], 0)]
  BY Alone DEF Boot
<1>4. asked'[Sole].id = asked[Sole].id /\ asked'[Sole].stop = asked[Sole].stop /\ asked'[Sole].target = 0
  BY <1>3 DEF Forgotten
<1>5. Own' = Oldest(rows, Sole)
  BY <1>2, Alone DEF Own
<1>6. Wired'
  BY <1>1, <1>2, <1>3 DEF EInv, Wired
<1>7. Ordered'
  BY <1>1, ChainEmpty DEF Ordered
<1>8. Table(rows)
  BY DEF EInv, Stored
<1>9. ASSUME NEW s \in Strategies, NEW p \in pos'[Sole][s]
      PROVE  Shape(p) /\ p.strategy = s /\ (s = Sole => Stuck(p)')
  <2>1. p \in Oldest(rows, s)
    BY <1>2, <1>9
  <2>2. Kept(p) /\ p.strategy = s
    BY <1>8, <2>1, Read
  <2> QED
    BY <1>4, <2>2 DEF Kept, Stuck
<1>10. \A p, q \in Own' : p = q
  BY <1>5, <1>8, Read
<1>11. Known'
  BY <1>1, <1>9, <1>10 DEF Known
<1>12. Table(rows)'
  BY <1>1, <1>4, <1>8, TableStays DEF Table, SameAsked
<1>13. Stored'
  BY <1>1, <1>12 DEF Stored
<1> QED
  BY <1>6, <1>7, <1>11, <1>13 DEF EInv

\* start() in a running process reads the rows ...
LEMMA Reads ==
  ASSUME OneStrategy, EInv, StartReads(Sole)
  PROVE  EInv'
<1>1. /\ up /\ UNCHANGED <<up, pos, rows, queue, left, scan, saving, asked>> /\ mixed' = mixed
      /\ reading' = [reading EXCEPT ![Sole] = {rows}]
  BY DEF StartReads, bus
<1>2. DOMAIN reading' = {Sole} /\ reading'[Sole] = {rows}
  BY <1>1 DEF EInv, Wired
<1>3. Own' = Own /\ OwnIds' = OwnIds
  BY <1>1 DEF Own, OwnIds
<1>4. \A p : (Stuck(p)' <=> Stuck(p)) /\ (Kept(p)' <=> Kept(p))
  BY <1>1 DEF Stuck, Kept
<1>5. Known'
  BY <1>1, <1>3, <1>4 DEF EInv, Known
<1>6. Stored'
  BY <1>1, <1>2, <1>4 DEF EInv, Stored, Table
<1>7. Wired' /\ Ordered'
  BY <1>1, <1>2, <1>3 DEF EInv, Wired, Ordered
<1> QED
  BY <1>5, <1>6, <1>7 DEF EInv

\* ... and puts them over what is in memory.
LEMMA Loads ==
  ASSUME OneStrategy, EInv, StartLoads(Sole)
  PROVE  EInv'
<1>1. PICK read \in reading[Sole] :
        LET new == Oldest(read, Sole) IN
         /\ pos' = [pos EXCEPT ![Sole] = [s \in Strategies |->
                       IF Oldest(read, s) = {} THEN pos[Sole][s] ELSE Oldest(read, s)]]
         /\ asked' = IF new = {} THEN asked
                     ELSE [asked EXCEPT ![Sole] = Forgotten(asked[Sole], IF Listed(Sole) THEN Unsure ELSE 0)]
         /\ mixed' = IF new = {} \/ {p.id : p \in new} = OwnIds THEN mixed ELSE mixed \cup {Sole}
         /\ reading' = [reading EXCEPT ![Sole] = {}]
         /\ UNCHANGED <<up, rows, queue, left, scan, saving>>
  BY DEF StartLoads, bus, Own, OwnIds, EInv, Wired
<1>2. PICK new : new = Oldest(read, Sole)
  OBVIOUS
<1>3. up /\ DOMAIN reading' = {Sole} /\ reading'[Sole] = {} /\ Table(read)
  BY <1>1 DEF EInv, Wired, Stored
<1>4. /\ DOMAIN pos' = {Sole} /\ DOMAIN pos'[Sole] = Strategies
      /\ \A s \in Strategies : pos'[Sole][s] = IF Oldest(read, s) = {} THEN pos[Sole][s] ELSE Oldest(read, s)
  BY <1>1 DEF EInv, Wired
<1>5. Own' = IF new = {} THEN Own ELSE new
  BY <1>2, <1>4, Alone DEF Own
<1>6. /\ DOMAIN asked' = {Sole} /\ asked'[Sole].id = asked[Sole].id /\ asked'[Sole].stop = asked[Sole].stop
      /\ new = {} => asked' = asked
      /\ new # {} => asked'[Sole].target = IF Listed(Sole) THEN Unsure ELSE 0
  <2>1. CASE new = {}
    BY <1>1, <1>2, <2>1 DEF EInv, Wired
  <2>2. CASE new # {}
    <3>1. PICK a : a = Forgotten(asked[Sole], IF Listed(Sole) THEN Unsure ELSE 0)
      OBVIOUS
    <3>2. a.id = asked[Sole].id /\ a.stop = asked[Sole].stop /\ a.target = IF Listed(Sole) THEN Unsure ELSE 0
      BY <3>1 DEF Forgotten
    <3>3. asked' = [asked EXCEPT ![Sole] = a]
      BY <1>1, <1>2, <2>2, <3>1
    <3>4. DOMAIN asked' = {Sole} /\ asked'[Sole] = a
      BY <3>3 DEF EInv, Wired
    <3> QED
      BY <2>2, <3>2, <3>4
  <2> QED
    BY <2>1, <2>2
<1>7. Wired'
  BY <1>1, <1>3, <1>4, <1>6 DEF EInv, Wired
<1>8. ASSUME NEW s \in Strategies, NEW p \in pos'[Sole][s]
      PROVE  Shape(p) /\ p.strategy = s /\ (s = Sole => Stuck(p)')
  <2>1. CASE Oldest(read, s) = {}
    <3>1. Shape(p) /\ p.strategy = s /\ (s = Sole => Stuck(p))
      BY <1>4, <1>8, <2>1 DEF EInv, Known
    <3> QED
      BY <1>2, <1>6, <2>1, <3>1 DEF Stuck
  <2>2. CASE Oldest(read, s) # {}
    <3>1. p \in Oldest(read, s)
      BY <1>4, <1>8, <2>2
    <3>2. Kept(p) /\ p.strategy = s
      BY <1>3, <3>1, Read
    <3> QED
      BY <1>2, <1>6, <2>2, <3>2 DEF Kept, Stuck
  <2> QED
    BY <2>1, <2>2
<1>9. \A p, q \in Own' : p = q
  BY <1>2, <1>3, <1>5, Read DEF EInv, Known
<1>10. ASSUME NEW p \in scan
       PROVE  Shape(p) /\ p.strategy \in Strategies /\ (p.strategy = Sole => Stuck(p)')
  <2>1. Shape(p) /\ p.strategy \in Strategies /\ (p.strategy = Sole => Stuck(p))
    BY DEF EInv, Known
  <2>2. p.strategy = Sole => Listed(Sole)
    BY Alone DEF EInv, Wired, Listed
  <2> QED
    BY <1>6, <2>1, <2>2 DEF Stuck
<1>11. Known'
  BY <1>1, <1>8, <1>9, <1>10 DEF Known
<1>12. Table(rows)'
  BY <1>1, <1>6, TableStays DEF EInv, Stored, Table, SameAsked
<1>13. Stored'
  BY <1>3, <1>12 DEF Stored
<1>14. Sole \notin mixed' => Sole \notin mixed /\ OwnIds' = OwnIds
  BY <1>1, <1>2, <1>5 DEF OwnIds
<1>15. Ordered'
  BY <1>1, <1>14 DEF EInv, Ordered
<1> QED
  BY <1>7, <1>11, <1>13, <1>15 DEF EInv

-----------------------------------------------------------------------------

LEMMA EInvStarts ==
  ASSUME OneStrategy, ExitsInit
  PROVE  EInv
<1>1. /\ pos = [m \in {Sole} |-> [s \in Strategies |-> {}]] /\ Own = {}
      /\ asked = [s \in {Sole} |-> Nothing] /\ reading = [s \in {Sole} |-> {}]
  BY Alone DEF ExitsInit, Empty, Own
<1>2. IsSequence(<<>>) /\ Len(<<>>) = 0
  BY DEF IsSequence
<1>3. Wired
  <2>1. /\ DOMAIN pos = {Sole} /\ DOMAIN pos[Sole] = Strategies
        /\ DOMAIN asked = {Sole} /\ DOMAIN reading = {Sole} /\ reading[Sole] = {}
    BY <1>1
  <2>2. queue = <<>> /\ left = Order /\ scan = {} /\ saving = {} /\ up = FALSE
    BY DEF ExitsInit
  <2>3. IsSequence(queue) /\ \A i \in 1..Len(queue) : FALSE
    BY <1>2, <2>2
  <2> QED
    BY <1>1, <2>1, <2>2, <2>3 DEF Wired
<1>4. Known /\ Ordered
  BY <1>1, ChainEmpty DEF ExitsInit, Known, Ordered
<1>5. Table(rows)
  <2>1. CASE rows = <<>>
    BY <2>1 DEF Table
  <2>2. ASSUME NEW s \in Others, rows = <<Left(s)>> PROVE Table(rows)
    <3>1. PICK r : r = Left(s)
      OBVIOUS
    <3>2. Shape(r) /\ r.target = 0 /\ r.strategy = s
      BY <3>1, BareShape DEF Left
    <3>3. Kept(r)
      BY <3>2, Alone DEF Kept
    <3>4. rows \in Seq({r})
      BY <2>2, <3>1
    <3> QED
      BY <3>3, <3>4 DEF Table
  <2> QED
    BY <2>1, <2>2 DEF ExitsInit
<1>6. Stored
  BY <1>1, <1>5 DEF Stored
<1> QED
  BY <1>3, <1>4, <1>6 DEF EInv

LEMMA EInvStep ==
  ASSUME OneStrategy, EInv, [ExitsNext]_exitVars
  PROVE  EInv'
<1>1. CASE \/ \E l \in Stops : SetStop(Sole, l)
           \/ \E l \in Targets : SetTarget(Sole, l)
           \/ Tighten(Sole)
  BY <1>1, Requests
<1>2. CASE \/ Sell(Sole) \/ BuyDecided(Sole) \/ BuyFails(Sole) \/ Buy(Sole) \/ BuyTarget(Sole) \/ BuyTrail(Sole)
  BY <1>2, Orders
<1>3. CASE Bus
  BY <1>3, Fills, Ticks, Saves, Exits, Alone DEF Bus
<1>4. CASE PublishPrice
  <2> DEFINE e == [type |-> "price", at |-> price]
  <2>1. /\ up /\ queue' = Append(queue, e) /\ UNCHANGED <<up, pos, rows, asked, left, scan, saving, reading>>
        /\ mixed' = mixed /\ e.type = "price"
    BY <1>4 DEF PublishPrice, Publish
  <2>2. Known' /\ Stored' /\ OwnIds' = OwnIds
    BY <2>1, Untouched
  <2>3. DOMAIN pos' = {Sole} /\ DOMAIN pos'[Sole] = Strategies /\ DOMAIN asked' = {Sole}
    BY <2>1 DEF EInv, Wired
  <2> HIDE DEF e
  <2> QED
    BY <2>1, <2>2, <2>3, PublishStep
<1>5. CASE Market \/ UNCHANGED exitVars
  <2>1. UNCHANGED <<up, pos, rows, asked, queue, left, scan, saving, reading, mixed>>
    BY <1>5 DEF Market, exitVars, bus
  <2>2. Known' /\ Stored' /\ Own' = Own /\ OwnIds' = OwnIds
    BY <2>1, Untouched
  <2> QED
    BY <2>1, <2>2 DEF EInv, Wired, Ordered
<1> QED
  BY <1>1, <1>2, <1>3, <1>4, <1>5, Alone, Crashes, Boots, Reads, Loads DEF ExitsNext

LEMMA EInvHolds == ASSUME OneStrategy PROVE ExitsSpec => []EInv
BY EInvStarts, EInvStep, PTL DEF ExitsSpec

\* For one wired strategy beside any that are no longer wired, any levels, prices and length of
\* the bus: a level of its position is the one that was set last, unless a copy of the position
\* was out when it was set, and a start forgets the target (PositionManager.on_market_tick,
\* set_stop_loss, set_take_profit, load_open_positions; TradingLoop.start).
THEOREM LevelsAlwaysStick == ASSUME OneStrategy PROVE ExitsSpec => []LevelsStick
<1>1. EInv => LevelsStick
  BY Alone DEF EInv, Known, Stuck, LevelsStick, Own
<1> QED
  BY <1>1, EInvHolds, PTL

\* For one wired strategy and any number of events that wait: what a trigger sells is the
\* position it was published for, unless since the process began a BUY has filled on top of a
\* position or a start() has put another position in its place
\* (TradingLoop._on_stop_loss_triggered, _on_take_profit_triggered).
THEOREM SellsOnlyWhatTriggered == ASSUME OneStrategy PROVE ExitsSpec => SellsWhatTriggered
<1>1. EInv /\ [ExitsNext]_exitVars =>
        [\A s \in Managers \ mixed : ExitFills(s) => \A p \in pos[s][s] : p.id = Head(queue).id]_exitVars
  <2> SUFFICES ASSUME EInv, NEW s \in Managers \ mixed, ExitFills(s), NEW p \in pos[s][s]
               PROVE  p.id = Head(queue).id
    OBVIOUS
  <2>1. s = Sole /\ p \in Own /\ queue # <<>> /\ Kind(Head(queue)) = "exit"
    BY Alone DEF Own, ExitFills, AtExit, Kind
  <2>2. Head(queue) = queue[1] /\ 1 \in 1..Len(queue)
    BY <2>1, RestOfBus DEF EInv
  <2>3. Chain(queue, OwnIds)
    BY <2>1 DEF EInv, Ordered
  <2>4. OwnIds # {} /\ p.id \in OwnIds
    BY <2>1 DEF OwnIds
  <2>5. OwnIds = {Head(queue).id}
    BY <2>1, <2>2, <2>3, <2>4 DEF Chain
  <2> QED
    BY <2>4, <2>5
<1> QED
  BY <1>1, EInvHolds, PTL DEF ExitsSpec, SellsWhatTriggered
=============================================================================
