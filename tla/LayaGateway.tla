---------------------------- MODULE LayaGateway ----------------------------
(***************************************************************************)
(* LayaGateway: decide, called by the worker's thread for one state at a    *)
(* time, over an HTTP connection that is kept between calls.                *)
(*                                                                         *)
(*   call    where decide is (idle, or about to connect, write or read, or   *)
(*           returned), the attempt and the state asked about                 *)
(*   link    the connection: whether the socket is open at this end and at   *)
(*           the server's, the questions that reached the server and the     *)
(*           replies on their way back                                      *)
(*   result  what decide returns: the state it is labelled with, the state    *)
(*           the reply was about, and whether it is the hold of a failure     *)
(*                                                                         *)
(* The server is external.  It answers the questions of a connection in      *)
(* order, sooner or later, and may close the connection at any time.  A       *)
(* call of the network may fail at any time, for whatever reason; a late      *)
(* answer on a connection that was closed at this end is discarded.           *)
(***************************************************************************)
EXTENDS Naturals, Sequences

CONSTANTS
    None,               \* no state
    Questions           \* sequences of the states that decide may be asked for

VARIABLES call, link, result

gatewayVars == <<call, link, result>>

ClosedLink == [open |-> FALSE, peer |-> FALSE, questions |-> <<>>, replies |-> <<>>]

NewLink == [ClosedLink EXCEPT !.open = TRUE, !.peer = TRUE]

InitGateway ==
    /\ call = [phase |-> "idle", attempt |-> 0, asked |-> None]
    /\ link = ClosedLink
    /\ result = [sequence |-> None, about |-> None, failed |-> FALSE]

Ask(sequence) ==
    /\ call.phase = "idle"
    /\ call' = [phase |-> "connecting", attempt |-> 1, asked |-> sequence]
    /\ UNCHANGED <<link, result>>

(* decide returns to its caller. *)
Return ==
    /\ call.phase = "returned"
    /\ call' = [phase |-> "idle", attempt |-> 0, asked |-> None]
    /\ UNCHANGED <<link, result>>

-----------------------------------------------------------------------------
(* Mutant of AfterFailure: the connection is not closed after a failure. *)
AfterFailureOpen == link

AfterFailure == ClosedLink

(* The handler of exceptions: close, then try again once or answer hold. *)
Fail ==
    /\ link' = AfterFailure
    /\ IF call.attempt = 1
       THEN /\ call' = [call EXCEPT !.phase = "connecting", !.attempt = 2]
            /\ UNCHANGED result
       ELSE /\ call' = [call EXCEPT !.phase = "returned"]
            /\ result' = [sequence |-> call.asked, about |-> None, failed |-> TRUE]

(* connect: an open socket is used again, even if the server has closed it. *)
Connect ==
    /\ call.phase = "connecting"
    /\ link' = IF link.open THEN link ELSE NewLink
    /\ call' = [call EXCEPT !.phase = "writing"]
    /\ UNCHANGED result

ConnectFails ==
    /\ call.phase = "connecting"
    /\ ~link.open
    /\ Fail

(* What is written to a connection that the server has closed is lost. *)
Write ==
    /\ call.phase = "writing"
    /\ link' = IF link.peer THEN [link EXCEPT !.questions = Append(@, call.asked)] ELSE link
    /\ call' = [call EXCEPT !.phase = "reading"]
    /\ UNCHANGED result

WriteFails ==
    /\ call.phase = "writing"
    /\ Fail

ReadAnswer ==
    /\ call.phase = "reading"
    /\ link.replies # <<>>
    /\ LET reply == Head(link.replies)
       IN  /\ reply.valid
           /\ link' = IF reply.keep THEN [link EXCEPT !.replies = Tail(@)] ELSE ClosedLink
           /\ result' = [sequence |-> call.asked, about |-> reply.about, failed |-> FALSE]
    /\ call' = [call EXCEPT !.phase = "returned"]

(* No reply in time, a broken connection, a status other than 200 or a body    *)
(* that parse_response refuses.                                             *)
ReadFails ==
    /\ call.phase = "reading"
    /\ Fail

-----------------------------------------------------------------------------
(* The server. *)

ServerReplies ==
    /\ link.peer /\ link.questions # <<>>
    /\ \E valid, keep \in BOOLEAN :
          link' = [link EXCEPT
                     !.questions = Tail(@),
                     !.replies = Append(@, [about |-> Head(link.questions),
                                            valid |-> valid, keep |-> keep]),
                     !.peer = keep]
    /\ UNCHANGED <<call, result>>

ServerCloses ==
    /\ link.peer
    /\ link' = [link EXCEPT !.peer = FALSE, !.questions = <<>>]
    /\ UNCHANGED <<call, result>>

-----------------------------------------------------------------------------
(* The steps of decide between its call and its return: every one of them     *)
(* waits for the network.                                                   *)
Exchange ==
    \/ Connect \/ ConnectFails
    \/ Write \/ WriteFails
    \/ ReadAnswer \/ ReadFails

Server == ServerReplies \/ ServerCloses

(* The gateway with a caller that asks one question after another. *)
GatewayNext ==
    \/ \E sequence \in Questions : Ask(sequence)
    \/ Return
    \/ Exchange \/ Server

GatewaySpec == InitGateway /\ [][GatewayNext]_gatewayVars

-----------------------------------------------------------------------------
(* An answer is about the state it is labelled with, through retries, late    *)
(* replies and connections used again: the live handler acts on it by that    *)
(* label (state_sequence).                                                  *)
AnswersOwnQuestion ==
    result.sequence # None /\ ~result.failed => result.about = result.sequence

=============================================================================
