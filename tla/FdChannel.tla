------------------------------ MODULE FdChannel ------------------------------
(***************************************************************************)
(* A unix stream socket with an abstract name, as the keysas daemons use   *)
(* it: the sender listens and accepts one connection at a time, the        *)
(* receiver connects, and every message (metadata and one file             *)
(* descriptor) travels from the sender to the receiver.  This is the       *)
(* kernel's part, modelled from what the daemons rely on:                  *)
(*                                                                         *)
(*   - a connection exists before it is accepted: it waits in the backlog, *)
(*     even after the receiver that asked for it died;                     *)
(*   - the sender does not learn that the receiver died until it sends;    *)
(*   - what was sent is still readable after the sender died, then the     *)
(*     receiver reads an end of file;                                      *)
(*   - a connection not yet accepted when the sender dies is reset;        *)
(*   - what was sent and not received is lost when the receiver dies.      *)
(*                                                                         *)
(* A channel is a record: the state of the sender's end, the state of the  *)
(* receiver's end, the connections of dead receivers in the backlog, and   *)
(* the messages sent and not received.                                     *)
(***************************************************************************)
EXTENDS Naturals, Sequences

SenderStates == {"unbound", "accepting", "linked", "broken"}
ReceiverStates == {"none", "pending", "linked", "eof", "reset"}

Unbound == [snd |-> "unbound", rcv |-> "none", dead |-> 0, queue |-> << >>]

(* bind_addr: the sender starts listening. *)
Bind(ch) == [ch EXCEPT !.snd = "accepting", !.dead = 0]

(* connect_addr succeeds as soon as the sender listens. *)
CanConnect(ch) == ch.snd # "unbound" /\ ch.rcv = "none"
Connect(ch) == [ch EXCEPT !.rcv = "pending"]

(* accept takes the oldest connection of the backlog; those of dead        *)
(* receivers are always older than the live one.                           *)
CanAccept(ch) == ch.snd = "accepting" /\ (ch.dead > 0 \/ ch.rcv = "pending")
Accept(ch) ==
  IF ch.dead > 0
  THEN [ch EXCEPT !.snd = "broken", !.dead = @ - 1]
  ELSE [ch EXCEPT !.snd = "linked", !.rcv = "linked"]

(* send on an accepted connection, and the broken pipe. *)
Send(ch, m) == [ch EXCEPT !.queue = Append(@, m)]
Drop(ch) == [ch EXCEPT !.snd = "accepting"]

(* recv, and the end of file or the error read once the queue is empty. *)
Receive(ch) == [ch EXCEPT !.queue = Tail(@)]
AtEnd(ch) == ch.queue = << >> /\ ch.rcv \in {"eof", "reset"}
Close(ch) == [ch EXCEPT !.rcv = "none"]

(* The process at one end dies, and the kernel closes its sockets. *)
SenderDies(ch) ==
  [ch EXCEPT !.snd = "unbound", !.dead = 0,
             !.rcv = CASE @ = "linked" -> "eof"
                       [] @ = "pending" -> "reset"
                       [] OTHER -> @]
ReceiverDies(ch) ==
  [ch EXCEPT !.rcv = "none", !.queue = << >>,
             !.snd = IF ch.rcv = "linked" THEN "broken" ELSE @,
             !.dead = IF ch.rcv = "pending" THEN @ + 1 ELSE @]
=============================================================================
