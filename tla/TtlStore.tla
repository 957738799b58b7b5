------------------------------ MODULE TtlStore ------------------------------
(***************************************************************************)
(* The data of the state store of src/state.py, shared by every module     *)
(* that uses it.  A store maps keys to entries; every entry carries the    *)
(* second at which it expires and is dead from that second on.             *)
(*                                                                         *)
(* A missing key is the entry Absent: DynamoDbStateStore reads a missing   *)
(* item's expires_at as 0, which no clock precedes, and InMemoryStateStore *)
(* answers None for it just as it does for an expired one.                 *)
(***************************************************************************)
EXTENDS Naturals

CONSTANT NoValue    \* what None is to the callers of the store

Absent == [val |-> NoValue, exp |-> 0]

Entries(Values) == [val : Values, exp : Nat] \cup {Absent}

(* The entry written by put(key, val, expires_at). *)
Item(val, expires_at) == [val |-> val, exp |-> expires_at]

(* `expires_at <= now' is the test of every operation: get, put_if_absent,  *)
(* consume and the table's own condition expression.                        *)
Live(e, t) == e.exp > t

=============================================================================
