------------------------------- MODULE MCNet -------------------------------
(* The reactor with two handlers, a websocket connection, and an acceptor: *)
(* a behaviour is one of a single component, the focus, while the others   *)
(* stay as they were created.                                              *)
(*                                                                         *)
(* WsConn: requests of the three kinds and one refused, each followed by   *)
(* frames with and without mask, in the three forms of the length, empty,  *)
(* or not of text, cut into reads in every way; buffers of 16 cells, less  *)
(* than a connection receives in all, and one too few for the answer and   *)
(* the longest frame sent.  One wsconn_send, in each of the three forms.   *)
(* Acceptor: three descriptors.                                            *)
EXTENDS Reactor, Integers, Sequences

CONSTANTS Requests, FrameLists, Residue, BufSize, AnswerLen, ShortLimit, MediumLimit,
          SendLens, MaxSends,   \* WsConn's
          Fds                   \* Acceptor's

ASSUME FdsAssumption == Fds \subseteq Nat

(* RFC 6455's frames: an opcode, a mask or none, a header of 2, 4 or 10    *)
(* bytes without it, and a payload.                                        *)
Frames == [op : Nat, masked : BOOLEAN, form : {2, 4, 10}, len : Nat]

ASSUME WsAssumption ==
  /\ Requests \subseteq Seq(STRING) /\ FrameLists \subseteq Seq(Frames)
  /\ BufSize \in Nat /\ AnswerLen \in Nat
  /\ ShortLimit \in Nat /\ MediumLimit \in Nat /\ SendLens \subseteq Nat

VARIABLES focus,
          script, input, up, released, status, ws_interest, rbuf, rrbuf, wbuf, wspc, got, both,
          sends, consumed, spoiled, owed, wire,
          fds, afd, alive, watched, apc, hook, opened, wrong

Frame(op, masked, form, len) == [op |-> op, masked |-> masked, form |-> form, len |-> len]
Asked ==
  {<<"GET", "UPGRADE", "CONNECTION", "HOST", "ORIGIN">>,
   <<"GET", "UPGRADE", "CONNECTION", "HOST", "SEC_ORIGIN", "SEC_KEY", "SEC_VERSION">>,
   <<"GET", "HOST", "CONNECTION", "SEC_KEY2", "SEC_PROTOCOL", "UPGRADE", "SEC_KEY1", "ORIGIN">>,
   <<"GET", "UPGRADE", "refused">>}
Then ==
  {<<Frame(1, TRUE, 2, 2), Frame(1, FALSE, 4, 1)>>,
   <<Frame(1, TRUE, 10, 1), Frame(1, TRUE, 2, 1)>>,
   <<Frame(1, FALSE, 2, 0)>>,
   <<Frame(2, TRUE, 2, 1)>>}

Rests == {{}, {"ORIGIN"}}

Ws == INSTANCE WsConn WITH interest <- ws_interest
Ac == INSTANCE Acceptor

wsVars == <<script, input, up, released, status, ws_interest, rbuf, rrbuf, wbuf, wspc, got, both,
            sends, consumed, spoiled, owed, wire>>
acVars == <<fds, afd, alive, watched, apc, hook, opened, wrong>>
allVars == <<focus, vars, wsVars, acVars>>

MCInit ==
  /\ focus \in {"reactor", "wsconn", "acceptor"}
  /\ Init /\ Ws!Init /\ Ac!Init
  /\ focus # "wsconn" => script = [request |-> CHOOSE r \in Requests : TRUE,
                                   frames |-> CHOOSE f \in FrameLists : TRUE]
  /\ focus # "reactor" => cur = CHOOSE h \in Handlers : TRUE

MCNext ==
  /\ IF focus = "reactor" THEN Next ELSE UNCHANGED vars
  /\ IF focus = "wsconn" THEN Ws!Next ELSE UNCHANGED wsVars
  /\ IF focus = "acceptor" THEN Ac!Next ELSE UNCHANGED acVars
  /\ UNCHANGED focus

(* The reactor is fair only where it is the component that runs.           *)
MCSpec ==
  /\ MCInit /\ [][MCNext]_allVars
  /\ SF_allVars(focus = "reactor" /\ epoll_wait /\ UNCHANGED <<focus, wsVars, acVars>>)
  /\ SF_allVars(focus = "reactor" /\ Dispatch /\ UNCHANGED <<focus, wsVars, acVars>>)

(* wsconn.c: however the client's bytes are cut into reads, on_read gets   *)
(* the frames' payload unmasked, in order and once; see Delivered in       *)
(* module WsConn.                                                          *)
Delivered == focus = "wsconn" => Ws!Delivered

(* wsconn.c: what is written is the answer and whole frames, and nothing   *)
(* waits without output events being asked for; see Framed in module       *)
(* WsConn.                                                                 *)
Framed == focus = "wsconn" => Ws!Framed

(* acceptor.c: an acceptor closes and watches only its own socket while    *)
(* nobody can have got its number; see Owned in module Acceptor.           *)
Owned == focus = "acceptor" => Ac!Owned
=============================================================================
