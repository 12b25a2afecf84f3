------------------------------ MODULE MCServe ------------------------------
(***************************************************************************)
(* Small instances of the server.  A run picks one of the casts below: who *)
(* may connect, and with which commands.                                   *)
(***************************************************************************)
EXTENDS ServeSession

CONSTANTS adder, adder2, starter, killer, watcher, actor1, actor2

Roles ==
    [s \in {adder, adder2, starter, killer, watcher, actor1, actor2} |->
        CASE s \in {adder, adder2} -> {"ADD_ACTOR"}
          [] s = starter -> {"START"}
          [] s = killer -> {"KILL"}
          [] s = watcher -> {"STATUS"}
          [] s \in {actor1, actor2} -> {"CONNECT"}]

\* A misconfigured client may also send a command without a type.
CastCommands ==
    [s \in Sockets |-> Roles[s] \cup (IF s \in Misconfigured THEN {"UNSET"} ELSE {})]
============================================================================
