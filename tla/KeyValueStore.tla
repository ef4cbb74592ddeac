---------------------------- MODULE KeyValueStore ---------------------------
(***************************************************************************)
(* What the buffer library promises its programs: a map of at most         *)
(* Capacity keys.                                                          *)
(***************************************************************************)
EXTENDS Naturals, FiniteSets, Functions

CONSTANTS Keys, Values, Capacity

VARIABLES store, reply

Reply(status, value) == [status |-> status, value |-> value]
Without(k) == Restrict(store, DOMAIN store \ {k})

Init == store = [k \in {} |-> k] /\ reply = Reply("ok", <<>>)

Set(k, v) ==
    IF k \in DOMAIN store \/ Cardinality(DOMAIN store) < Capacity
    THEN /\ store' = [j \in DOMAIN store \union {k} |->
                         IF j = k THEN v ELSE store[j]]
         /\ reply' = Reply("ok", <<>>)
    ELSE reply' = Reply("full", <<>>) /\ UNCHANGED store

Get(k) ==
    /\ reply' = IF k \in DOMAIN store THEN Reply("ok", <<store[k]>>)
                ELSE Reply("not_found", <<>>)
    /\ UNCHANGED store

Take(k) ==
    /\ reply' = IF k \in DOMAIN store THEN Reply("ok", <<store[k]>>)
                ELSE Reply("not_found", <<>>)
    /\ store' = Without(k)

Clear(k) ==
    /\ reply' = Reply(IF k \in DOMAIN store THEN "ok" ELSE "not_found", <<>>)
    /\ store' = Without(k)

ClearAll == store' = Restrict(store, {}) /\ UNCHANGED reply

\* A call that is refused for its arguments.
Refuse ==
    /\ reply' \in {Reply("invalid_key", <<>>), Reply("too_long", <<>>)}
    /\ UNCHANGED store

Next ==
    \/ \E k \in Keys : Get(k) \/ Take(k) \/ Clear(k)
    \/ \E k \in Keys, v \in Values : Set(k, v)
    \/ ClearAll \/ Refuse

Spec == Init /\ [][Next]_<<store, reply>>
=============================================================================
