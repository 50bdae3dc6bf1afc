----------------------------- MODULE ServiceCall -----------------------------
(***************************************************************************)
(* How keysas-transit calls keysas-analyze and keysas-virustotal: one      *)
(* connection for each file on an abstract unix socket, one request, one   *)
(* answer.  The service treats one connection at a time, in the order they *)
(* came.  A service is a record of                                         *)
(*   up        it listens                                                  *)
(*   backlog   requests of the connections it has not accepted             *)
(*   serving   the request it has read and not answered                    *)
(*   waiting   transit waits for the answer to its last request            *)
(* A request transit no longer waits for, because transit died, is treated *)
(* all the same, and the answer goes nowhere.                              *)
(***************************************************************************)
EXTENDS Naturals, Sequences

CONSTANT NoRequest

Service(Requests) ==
  [up : BOOLEAN, backlog : Seq(Requests), serving : Requests \cup {NoRequest},
   waiting : BOOLEAN]

NewService == [up |-> TRUE, backlog |-> << >>, serving |-> NoRequest, waiting |-> FALSE]

(* Connect and send: only possible while the service listens.               *)
Called(s, request) ==
  [s EXCEPT !.backlog = Append(@, request), !.waiting = TRUE]

CanServe(s) == s.up /\ s.serving = NoRequest /\ s.backlog # << >>

Served(s) == [s EXCEPT !.serving = Head(s.backlog), !.backlog = Tail(@)]

(* Transit's connection is the last one made.                               *)
IsAwaited(s) == s.waiting /\ s.backlog = << >>

Answered(s) ==
  [s EXCEPT !.serving = NoRequest, !.waiting = @ /\ ~IsAwaited(s)]

(* The death of the service closes every connection: transit reads an end   *)
(* of file.                                                                 *)
ServiceDied(s) == [NewService EXCEPT !.up = FALSE]

ServiceStarted(s) == [s EXCEPT !.up = TRUE]

CallerDied(s) == [s EXCEPT !.waiting = FALSE]
=============================================================================
