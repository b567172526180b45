-------------------------------- MODULE Feed --------------------------------
(***************************************************************************)
(* What a BGP session promises about the routes a peer learns from it,     *)
(* without saying how: the session follows one snapshot of the exports at  *)
(* a time, announces only routes of that snapshot, withdraws only routes   *)
(* outside it, and leaves nothing behind when it ends.  A route wanted     *)
(* before and after a snapshot change is therefore never interrupted.      *)
(***************************************************************************)
CONSTANT Prefixes

VARIABLES
    exports,    \* the latest snapshot of the peer's ACL
    scope,      \* the prefixes of the negotiated families; {} without a session
    wanted,     \* the snapshot the session follows, restricted to scope
    held        \* the peer's routes from this session

feedVars == <<exports, scope, wanted, held>>

Init ==
    /\ exports \in SUBSET Prefixes
    /\ scope = {} /\ wanted = {} /\ held = {}

Publish ==
    /\ exports' \in SUBSET Prefixes
    /\ UNCHANGED <<scope, wanted, held>>

Open ==
    /\ scope = {} /\ held = {}
    /\ scope' \in SUBSET Prefixes
    /\ wanted' = exports \cap scope'
    /\ UNCHANGED <<exports, held>>

Take ==
    /\ wanted' = exports \cap scope
    /\ UNCHANGED <<exports, scope, held>>

Announce(S) ==
    /\ S \subseteq wanted
    /\ held' = held \cup S
    /\ UNCHANGED <<exports, scope, wanted>>

Withdraw(S) ==
    /\ S \cap wanted = {}
    /\ held' = held \ S
    /\ UNCHANGED <<exports, scope, wanted>>

Close ==
    /\ scope' = {} /\ wanted' = {} /\ held' = {}
    /\ UNCHANGED exports

Synchronize == \E S \in SUBSET Prefixes : Announce(S) \/ Withdraw(S)

Next == Publish \/ Open \/ Take \/ Synchronize \/ Close

Spec == Init /\ [][Next]_feedVars

(* A snapshot that stays ahead of the session is taken, and a peer that    *)
(* stays behind the session's snapshot is brought closer to it.            *)
LiveSpec == Spec /\ WF_feedVars(Take) /\ WF_feedVars(Synchronize)
=============================================================================
