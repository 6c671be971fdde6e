------------------------- MODULE SessionsInvariant -------------------------
(***************************************************************************)
(* The inductive invariant of Sessions: TypeOK needs PlaceInv (a thread    *)
(* that works on a slot names it), ClosedIsEmpty needs CloseInv, which     *)
(* also speaks of sessions that fail while they are being closed, and the  *)
(* ownership of workers and slots needs SessionParts.                      *)
(***************************************************************************)
EXTENDS Sessions

(* Places of a thread that works on one backend, and on a whole close      *)
OnSlot  == {"launch", "register", "release", "enter", "request", "project",
            "accuse", "terminate", "settle", "discard", "drop", "detach", "open"}
OnClose == {"ending", "failing", "closing"}

Placed(t) ==
    /\ t.pc = "idle" => t.rec = "no"
    /\ t.pc # "idle" => t.s \in Ids
    /\ t.pc \in OnSlot => t.k \in Kinds

PlaceInv == \A c \in Threads : Placed(th[c])

TypeInv == TypeOK /\ PlaceInv

(* No slot of the session is filled or claimed                             *)
Emptied(s) == \A k \in Kinds : item[s][k] = None /\ phase[s][k] # "opening"

(* A session whose close has begun stays emptied while the close goes on,  *)
(* even when another thread has made it failed meanwhile.                  *)
CloseInv ==
    /\ \A s \in Ids : session[s] \in {"closing", "closed"} => Emptied(s)
    /\ \A c \in Threads : th[c].pc \in OnClose =>
          /\ session[th[c].s] \in {"closing", "closed", "failed", "gone"}
          /\ Emptied(th[c].s)

(* States no close, failure or retirement is undone from                   *)
Over == {"closing", "closed", "failed", "gone"}

Opens(c)   == th[c].pc \in {"launch", "register"}
OpensAs(c, s) == Opens(c) /\ th[c].first /\ th[c].s = s

(* Nobody else fills the slot of an opener whose claim nobody took back: it *)
(* is the only one, or the session has ended under it.                      *)
OpenerInv ==
    \A c \in Threads : Opens(c) /\ Slot(c) \notin revoked =>
        LET s == th[c].s  k == th[c].k IN
        /\ item[s][k] = None
        /\ \/ /\ phase[s][k] = "opening"
              /\ \A d \in Threads \ {c} : Opens(d) => Slot(d) # Slot(c)
           \/ phase[s][k] # "opening" /\ session[s] \in Over

(* A worker is in the slot it was started for, or with one thread, and one  *)
(* that was never started has no slot.                                      *)
OwnerInv ==
    /\ \A c \in Threads :
          /\ th[c].hand # None => th[c].pc \in {"register", "release", "terminate", "drop"}
          /\ th[c].mine # {} => th[c].pc = "ending"
          /\ th[c].pc = "register" => th[c].hand \in Workers /\ home[th[c].hand] = Slot(c)
    /\ \A s \in Ids, k \in Kinds : item[s][k] # None => home[item[s][k]] = <<s, k>>
    /\ home \in [Workers -> (Ids \cup {None}) \X (Kinds \cup {None})]
    /\ \A w \in Workers : worker[w] = "free" => home[w] = <<None, None>>
    /\ WorkersOwned

(* A session opens with its first backend, no other thread is its first     *)
(* opener, and a report is projected only on one that has opened.           *)
FirstInv ==
    /\ \A c \in Threads : th[c].pc = "project" /\ th[c].moves # <<>> =>
          session[th[c].s] \in Live \cup Over
    /\ \A c \in Threads : Opens(c) /\ th[c].first => session[th[c].s] \in {"opening"} \cup Over
    /\ \A c, d \in Threads, s \in Ids :
          OpensAs(c, s) /\ OpensAs(d, s) /\ session[s] = "opening" => c = d
    /\ \A s \in Ids, k \in Kinds : phase[s][k] = "opening" =>
          /\ session[s] \notin {"new", "created"}
          /\ session[s] = "opening" => \E c \in Threads : OpensAs(c, s) /\ th[c].k = k

(* What ownership, opening and the passing states need together             *)
SessionParts == OpenerInv /\ OwnerInv /\ FirstInv /\ PassingStatesPass

SInv == TypeInv /\ CloseInv /\ SessionParts
=============================================================================
