---------------------------- MODULE RecentPairs -----------------------------
(***************************************************************************)
(* What a two-way least-recently-used cache promises, with no ways: each   *)
(* set holds the two keys used last among those it could load (one or none *)
(* before that), and every use is answered as if nothing were cached.      *)
(***************************************************************************)
CONSTANTS
    Sets,               \* the sets
    Keys,               \* what can be asked for
    SetOf(_),           \* the set a key belongs to
    Value(_),           \* the right answer for a key
    NoValue             \* the answer for a key that cannot be loaded

VARIABLES
    held,               \* held[s]: the keys set s holds
    latest,             \* latest[s]: the key used last, meaningless if none is held
    answer              \* the last answer

Init ==
    /\ held = [s \in Sets |-> {}]
    /\ latest \in [Sets -> Keys]
    /\ answer = NoValue

\* A new key joins the latest one; the other is dropped.
Use(k) ==
    LET s == SetOf(k)
    IN  /\ answer' = Value(k)
        /\ \/ /\ k \in held[s]
              /\ latest' = [latest EXCEPT ![s] = k]
              /\ UNCHANGED held
           \/ /\ k \notin held[s] /\ Value(k) # NoValue
              /\ latest' = [latest EXCEPT ![s] = k]
              /\ held' = [held EXCEPT ![s] = {k} \union (@ \intersect {latest[s]})]
           \/ /\ k \notin held[s] /\ Value(k) = NoValue
              /\ UNCHANGED <<held, latest>>

Next == \E k \in Keys : Use(k)

Spec == Init /\ [][Next]_<<held, latest, answer>>
=============================================================================
