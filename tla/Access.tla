------------------------------- MODULE Access -------------------------------
(***************************************************************************)
(* The decisions of OxenMQ that are pure functions: which service nodes    *)
(* are active after an update, who may connect (ZAP), which command a name *)
(* stands for and who may run it.  (auth.cpp, auth.h, oxenmq.cpp 60-153    *)
(* and 326-360)  Connections and Lifecycle use them in their actions.      *)
(*                                                                         *)
(* An operator X_Mistake before X is X with a mistake in it; nothing uses  *)
(* it except the sensitivity runs described in README.md.                  *)
(***************************************************************************)
EXTENDS Integers, Sequences, FiniteSets, Functions

CONSTANTS
    Pubkeys,   \* strings of 32 bytes
    BadKeys,   \* strings of another length, given as public keys
    NoKey,     \* the empty string: a remote without a key
    PartSize   \* the parts of command names -> their length

ASSUME KeysAssumption ==
    /\ Pubkeys \cap BadKeys = {} /\ NoKey \notin Pubkeys \cup BadKeys
    /\ IsFiniteSet(Pubkeys)
ASSUME SizeAssumption == PartSize \in [DOMAIN PartSize -> Nat]

(* enum class AuthLevel; the first is no level but a refusal. *)
denied == 0
none == 1
basic == 2
admin == 3
Levels == none..admin

-----------------------------------------------------------------------------
(* Service node lists. *)

(* proxy_update_active_sns_clean: removals first, then additions. *)
Clean(active, added, removed) == (active \ removed) \cup added

(* proxy_update_active_sns: the two filters.  A key in both sets stays. *)
FilterRemoved(active, added, removed) ==
    {pk \in removed \cap Pubkeys : pk \in active /\ pk \notin added}
FilterAdded_AnyLength(active, added) == added \ active
FilterAdded(active, added) == {pk \in added \cap Pubkeys : pk \notin active}

(* proxy_set_active_sns: what is new in the list, and whether nothing is. *)
NewKeys(active, keys) == (keys \cap Pubkeys) \ active
Unchanged(active, keys) ==
    /\ NewKeys(active, keys) = {}
    /\ Cardinality(active) = Cardinality(keys \cap Pubkeys)

(***************************************************************************)
(* The scan for removed keys walks over active_service_nodes in an         *)
(* unspecified order and stops once the sizes add up; it tests that only   *)
(* after an element.  Scans are the sets it may have visited at its end.   *)
(***************************************************************************)
AddsUp_OffByOne(active, keys, seen) ==
    Cardinality(active) + Cardinality(NewKeys(active, keys))
        - Cardinality(seen \ keys) <= Cardinality(keys \cap Pubkeys) + 1
AddsUp(active, keys, seen) ==
    Cardinality(active) + Cardinality(NewKeys(active, keys))
        - Cardinality(seen \ keys) = Cardinality(keys \cap Pubkeys)
Scans(active, keys) ==
    {seen \in SUBSET active :
        \/ seen = active /\ active = {}
        \/ \E last \in seen :
              /\ seen = active \/ AddsUp(active, keys, seen)
              /\ seen = {last} \/ ~AddsUp(active, keys, seen \ {last})}

(* The two list updates as the set of lists they may leave. *)
SetActive(active, keys) ==
    IF Unchanged(active, keys) THEN {active}
    ELSE {Clean(active, NewKeys(active, keys), seen \ keys) : seen \in Scans(active, keys)}
UpdateActive(active, added, removed) ==
    Clean(active, FilterAdded(active, added), FilterRemoved(active, added, removed))

-----------------------------------------------------------------------------
(* Commands.  A name is the tuple of its parts: <<category, command>>, or  *)
(* <<part>> for one without a dot, which only an alias can have.           *)

MAX_CATEGORY_LENGTH == 50
MAX_COMMAND_LENGTH == 200
Size(name) == IF Len(name) = 1 THEN PartSize[name[1]] ELSE PartSize[name[1]] + 1 + PartSize[name[2]]

(* get_command: the length is tested first, and of the name that was sent; *)
(* then one alias step at most, then category and command.                 *)
TooLong_NoDot(name) == Size(name) > MAX_CATEGORY_LENGTH + MAX_COMMAND_LENGTH
TooLong(name) == Size(name) > MAX_CATEGORY_LENGTH + 1 + MAX_COMMAND_LENGTH
GetCommand(commands, aliases, name) ==
    LET target == IF name \in DOMAIN aliases THEN aliases[name] ELSE name
    IN IF ~TooLong(name) /\ target \in DOMAIN commands THEN commands[target] ELSE [found |-> FALSE]

(* proxy_check_auth: the error code of a command, "" when it may run. *)
CheckAuth(cmd, level, sn, local_sn, tagged) ==
    IF ~cmd.found THEN "UNKNOWNCOMMAND"
    ELSE IF level < cmd.auth THEN "FORBIDDEN"
    ELSE IF cmd.local_sn /\ ~local_sn THEN "NOT_A_SERVICE_NODE"
    ELSE IF cmd.remote_sn /\ ~sn THEN "FORBIDDEN_SN"
    ELSE IF cmd.request /\ ~tagged THEN "NO_REPLY_TAG"
    ELSE ""

-----------------------------------------------------------------------------
(***************************************************************************)
(* process_zap_requests: libzmq asks whether key pk may connect to the     *)
(* listener number bind_id; allow is that listener's callback, which may   *)
(* return anything an AuthLevel can hold.  The level travels back as text  *)
(* in the metadata of every message of the connection.                     *)
(***************************************************************************)
Zap(binds, request, active) ==
    IF ~request.complete THEN [status |-> "500", level |-> denied]
    ELSE IF request.domain \notin DOMAIN binds THEN [status |-> "400", level |-> denied]
    ELSE LET b == binds[request.domain]
             sn == b.curve /\ request.key \in active
             auth == b.allow[request.key, sn]
         IN IF \/ request.mechanism # (IF b.curve THEN "CURVE" ELSE "NULL")
               \/ b.curve /\ request.key \notin Pubkeys
            THEN [status |-> "500", level |-> denied]
            ELSE IF auth <= denied \/ auth > admin
            THEN [status |-> "400", level |-> denied]
            ELSE [status |-> "200", level |-> auth]
=============================================================================
