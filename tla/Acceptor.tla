------------------------------ MODULE Acceptor -----------------------------
(***************************************************************************)
(* net/acceptor.c: a listening socket that is a handler of the reactor.    *)
(* The subject is who owns which descriptor: the kernel hands out the      *)
(* lowest one that is free, so one the acceptor has closed may be anyone's *)
(* next.  The application, of several threads perhaps, opens and closes    *)
(* descriptors of its own at any moment, stops and starts the acceptor as  *)
(* it likes, and releases it from outside its callbacks.                   *)
(***************************************************************************)
EXTENDS Integers

CONSTANT Fds   \* the descriptors of the process, numbers

VARIABLES
  fds,       \* each descriptor's use: "free", "listener", "accepted", "app"
  afd,       \* a->h.fd
  alive,     \* the acceptor is allocated
  watched,   \* it is registered with the reactor
  apc,       \* "app", "on_read", or "close" for the callback that runs
  hook,      \* a->on_read is set
  opened,    \* history: a descriptor was opened when its own was closed
  wrong      \* history: acc_stop closed somebody else's descriptor

vars == <<fds, afd, alive, watched, apc, hook, opened, wrong>>

INVALID_SOCK == -1
FreeFds == {f \in Fds : fds[f] = "free"}
Lowest == CHOOSE f \in FreeFds : \A g \in FreeFds : f <= g
Holds == afd # INVALID_SOCK /\ fds[afd] = "listener"   \* its socket is open

Init ==
  /\ fds = [f \in Fds |-> "free"] /\ afd = INVALID_SOCK
  /\ alive = FALSE /\ watched = FALSE /\ apc = "app" /\ hook = TRUE
  /\ opened = FALSE /\ wrong = FALSE

(* With acc_set_read_func, or without.  sock_tcp fails when no descriptor  *)
(* is left.                                                                *)
acc_create(h) ==
  /\ apc = "app" /\ ~alive
  /\ alive' = TRUE /\ hook' = h /\ opened' = FALSE /\ wrong' = FALSE
  /\ IF FreeFds = {} THEN afd' = INVALID_SOCK /\ UNCHANGED fds
                     ELSE afd' = Lowest /\ fds' = [fds EXCEPT ![Lowest] = "listener"]
  /\ UNCHANGED <<watched, apc>>

(* sock_listen fails without effect for what is free, connected or bound   *)
(* already, as a socket that was started is, and may fail for any other.   *)
(* It need not for a fresh socket of the application that has got the      *)
(* number the acceptor still holds.                                        *)
acc_start ==
  /\ alive /\ ~watched
  /\ afd # INVALID_SOCK /\ fds[afd] \in {"listener", "app"}
  /\ watched' = TRUE
  /\ UNCHANGED <<fds, afd, alive, apc, hook, opened, wrong>>

(* acc_stop without its caller: the descriptor stays in the handler.       *)
Stopped ==
  IF afd = INVALID_SOCK THEN UNCHANGED <<fds, watched, opened, wrong>>
  ELSE /\ watched' = FALSE
       /\ fds' = [fds EXCEPT ![afd] = "free"]
       /\ wrong' = (wrong \/ fds[afd] \in {"accepted", "app"})
       /\ UNCHANGED opened

acc_stop ==
  /\ alive
  /\ Stopped
  /\ UNCHANGED <<afd, alive, apc, hook>>

(* Fault: the acceptor is freed and its socket stays open.                 *)
ReleasedOpen ==
  /\ alive' = FALSE /\ watched' = FALSE
  /\ UNCHANGED <<fds, opened, wrong, afd, hook>>

(* acc_release without its caller.                                         *)
Released ==
  /\ Stopped
  /\ alive' = FALSE
  /\ UNCHANGED <<afd, hook>>

acc_release == apc = "app" /\ alive /\ Released /\ UNCHANGED apc

(* _acc_read: a failing accept has the reactor call close_func; without    *)
(* on_read the new descriptor is forgotten.                                *)
_acc_read ==
  /\ apc = "app" /\ watched
  /\ \/ apc' = "close" /\ UNCHANGED fds
     \/ /\ FreeFds # {}
        /\ fds' = [fds EXCEPT ![Lowest] = "accepted"]
        /\ apc' = IF hook THEN "on_read" ELSE "app"
  /\ UNCHANGED <<afd, alive, watched, hook, opened, wrong>>

OnReadReturns(ok) ==
  /\ apc = "on_read"
  /\ apc' = IF ok THEN "app" ELSE "close"
  /\ UNCHANGED <<fds, afd, alive, watched, hook, opened, wrong>>

(* After on_close.                                                         *)
_acc_close == apc = "close" /\ Released /\ apc' = "app"

(* The application's own descriptors and the connections it was given.     *)
Open ==
  /\ FreeFds # {}
  /\ fds' = [fds EXCEPT ![Lowest] = "app"]
  /\ opened' = (opened \/ ~Holds)
  /\ UNCHANGED <<afd, alive, watched, apc, hook, wrong>>

(* The kernel watches no descriptor that is closed.                        *)
Close(f) ==
  /\ fds[f] \in {"app", "accepted"}
  /\ fds' = [fds EXCEPT ![f] = "free"]
  /\ watched' = (watched /\ f # afd)
  /\ UNCHANGED <<afd, alive, apc, hook, opened, wrong>>

Next ==
  \/ \E h \in BOOLEAN : acc_create(h)
  \/ acc_start \/ acc_stop \/ acc_release \/ _acc_read \/ _acc_close
  \/ \E ok \in BOOLEAN : OnReadReturns(ok)
  \/ Open \/ \E f \in Fds : Close(f)

Spec == Init /\ [][Next]_vars

----------------------------------------------------------------------------
(* Properties *)

(* An acceptor keeps the number of a socket it has closed, and would close *)
(* or listen on whatever takes it.  As long as nobody opens a descriptor   *)
(* after that, it closes and watches only the socket it opened, however it *)
(* is stopped, started again and released, by a failing callback too.      *)
(* And in any case nothing is watched and no socket of its is left open    *)
(* once it is freed.                                                       *)
Owned ==
  /\ ~opened => ~wrong /\ (watched => Holds)
  /\ ~alive => ~watched /\ \A f \in Fds : fds[f] # "listener"
=============================================================================
