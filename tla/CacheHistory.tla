---------------------------- MODULE CacheHistory ----------------------------
(***************************************************************************)
(* What clients may conclude from the calls they have seen return.  The    *)
(* history variables below observe the steps of Cache and never constrain  *)
(* them.                                                                   *)
(***************************************************************************)
EXTENDS Cache

CONSTANT Erasers    \* which of "Set", "Del" and "Clear" erase earlier values

VARIABLES
    acked,      \* value -> [key, conflict], once its Set has returned true
    doomed,     \* doomed[c]: acknowledged values that c's later calls erase
    gone        \* values erased for good, as a Wait or a Clear has returned

historyVars == <<acked, doomed, gone>>

Id(i) == [key |-> i.key, conflict |-> i.conflict]
AckedFor(i) == {v \in DOMAIN acked : acked[v] = Id(i)}

\* Client c goes from one program counter to another.
Moves(c, from, to) == pc[c] = from /\ pc'[c] = to

SetAcked(c) == Moves(c, "send", "idle") /\ refused' = refused
SetRefused(c) == Moves(c, "send", "idle") /\ refused' # refused

DoomedAfter(c) ==
    IF \/ Moves(c, "idle", "del") /\ "Del" \in Erasers
       \/ Moves(c, "idle", "update") /\ "Set" \in Erasers
    THEN doomed[c] \cup AckedFor(cur'[c])
    ELSE IF Moves(c, "idle", "stop") /\ "Clear" \in Erasers THEN DOMAIN acked
    ELSE IF SetRefused(c) THEN doomed[c] \ AckedFor(cur[c])
    ELSE IF Moves(c, "waiting", "idle") \/ Moves(c, "restart", "idle") THEN {}
    ELSE doomed[c]

Observe ==
    /\ acked' = [v \in DOMAIN acked \cup
                        {cur[c].value : c \in {x \in Clients : SetAcked(x)}} |->
                    IF v \in DOMAIN acked THEN acked[v]
                    ELSE Id(cur[CHOOSE c \in Clients : SetAcked(c)])]
    /\ doomed' = [c \in Clients |-> DoomedAfter(c)]
    /\ gone' = gone \cup UNION {doomed[c] : c \in
                    {x \in Clients : \/ Moves(x, "waiting", "idle")
                                     \/ Moves(x, "restart", "idle")}}

HInit ==
    /\ Init
    /\ acked = EmptyMap
    /\ doomed = [c \in Clients |-> {}]
    /\ gone = {}

HNext == Next /\ Observe

HSpec == HInit /\ [][HNext]_<<cacheVars, historyVars>>

-----------------------------------------------------------------------------
(* Properties *)

\* Clear is "not an atomic operation" (cache.go:448): while it runs, with the
\* processor stopped, it drops buffered deletions it has yet to make up for.
NoneVisible(values) ==
    pp # "dead" => \A h \in DOMAIN data : data[h].value \notin values

\* "if a set is followed by a delete, it will be applied in the correct order"
\* (cache.go:393): once a client's Del, followed by its Wait, has returned, no
\* value whose Set of that key had returned before is in the store, ever again.
\* The same holds of all keys once Clear has returned.
ErasedStaysErased == NoneVisible(gone)

\* Wait "ensures a call to Set() will be visible to future calls to Get()"
\* (cache.go:278): once a client's Set, followed by its Wait, has returned, a
\* value of that key whose Set had returned before it is not what Get finds.
ReplacedStaysReplaced == NoneVisible(gone)

\* A Get finds only what was set for the key it asks for, though two keys may
\* share a hash.
NoAliasing ==
    \A k \in Keys : Found(KeyHash[k], ConflictHash[k]) =>
        LET v == data[KeyHash[k]].value
        IN  v \in DOMAIN acked =>
                acked[v] = [key |-> KeyHash[k], conflict |-> ConflictHash[k]]
=============================================================================
