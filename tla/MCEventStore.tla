---------------------------- MODULE MCEventStore -----------------------------
(***************************************************************************)
(* Instance of EventStore for TLC.                                         *)
(***************************************************************************)
EXTENDS EventStore

(* The names of the two networks begin alike. *)
near == <<"1", ".", "5">>
far == <<"1", "0", ".", "5">>

Seen(kind, source, ip) == [kind |-> kind, source |-> source, ip |-> ip, user |-> "u"]

MCObserved == {Seen("login_failure", "sshd", near), Seen("invalid_user", "sshd", near),
               Seen("login_success", "sshd", far),
               Seen("violation", "sshd-monitor", near)}

MCQueries == {
  [ask |-> "since", ip |-> near, within |-> 1],
  [ask |-> "window", ip |-> near, within |-> 2, limit |-> 2],
  [ask |-> "login", user |-> "u"],
  [ask |-> "subnet", subnet |-> <<"1">>, hosts |-> {near}, within |-> 1],
  [ask |-> "subnet", subnet |-> <<"1", "0", ".">>, hosts |-> {far}, within |-> 1]}
=============================================================================
