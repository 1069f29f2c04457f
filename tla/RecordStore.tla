---------------------------- MODULE RecordStore ----------------------------
(***************************************************************************)
(* What the program may rely on when it saves records, whichever database  *)
(* is behind the DataStore protocol: a read returns what was put last; a   *)
(* save that has returned outlives a crash; a save that failed, or was cut *)
(* off, leaves each of its records as it was or as it was to become.       *)
(*                                                                         *)
(* versions[r] are the values of record r a crash may bring back, the one  *)
(* that a read returns last.                                               *)
(***************************************************************************)
EXTENDS Sequences, Naturals

CONSTANTS Callers, Records, None

VARIABLES versions,     \* record -> values, the current one last
          calls         \* caller -> the rows it has yet to put, the records it has put,
                        \* whether its last save failed
vars == <<versions, calls>>

Nothing == [r \in {} |-> None]
Idle == [todo |-> Nothing, done |-> {}, raised |-> FALSE]
Failed == [Idle EXCEPT !.raised = TRUE]
Idling(c) == calls[c] \in {Idle, Failed}
Without(f, S) == [r \in DOMAIN f \ S |-> f[r]]

Latest(s) == s[Len(s)]
\* what is left of the versions s when some of them have become out of a crash's reach
Since(s) == {SubSeq(s, i, Len(s)) : i \in 1 .. Len(s)}

Init == /\ versions = [r \in Records |-> <<None>>]
        /\ calls = [c \in Callers |-> Idle]

Begin(c) ==
    /\ Idling(c) /\ calls'[c].todo # Nothing
    /\ calls' = [calls EXCEPT ![c] = [Idle EXCEPT !.todo = calls'[c].todo]]
    /\ UNCHANGED versions

Put(c) ==
    \E S \in SUBSET DOMAIN calls[c].todo :
        /\ S # {}
        /\ \A r \in Records :
              versions'[r] \in IF r \in S THEN Since(Append(versions[r], calls[c].todo[r]))
                                          ELSE {versions[r]}
        /\ versions' = [r \in Records |-> versions'[r]]
        /\ calls' = [calls EXCEPT ![c].todo = Without(@, S), ![c].done = @ \cup S]

Return(c) ==
    /\ calls[c].todo = Nothing /\ calls[c].done # {}
    /\ \A r \in Records :
          versions'[r] \in IF r \in calls[c].done THEN {<<Latest(versions[r])>>} ELSE Since(versions[r])
    /\ versions' = [r \in Records |-> versions'[r]]
    /\ calls' = [calls EXCEPT ![c] = Idle]

Fail(c) ==
    /\ ~Idling(c)
    /\ calls' = [calls EXCEPT ![c] = Failed]
    /\ UNCHANGED versions

Crash ==
    /\ \A r \in Records : \E i \in 1 .. Len(versions[r]) : versions'[r] = <<versions[r][i]>>
    /\ versions' = [r \in Records |-> versions'[r]]
    /\ calls' = [c \in Callers |-> Idle]

Next == Crash \/ \E c \in Callers : Begin(c) \/ Put(c) \/ Return(c) \/ Fail(c)
Spec == Init /\ [][Next]_vars
=============================================================================
