-------------------------- MODULE LifecycleContract --------------------------
(***************************************************************************)
(* What the resource hierarchy promises the objects in it, without levels, *)
(* requests or posted work.  An object is offline until its HandleStarting *)
(* is called, online until its HandleStopping is, leaving while it and its *)
(* children come to rest, and gone when they have.  Resources come into    *)
(* being online and may be destroyed when they are gone.                   *)
(*                                                                         *)
(* The promise is about order: nobody is called before what it uses is     *)
(* online, nobody is told to leave while somebody still uses it, and       *)
(* nobody is gone before everything below it is.                           *)
(***************************************************************************)
EXTENDS FiniteSets

CONSTANTS Service, Resource, Root, Parent,
          Uses      \* <<c, p>>: the service c uses the service p

Node == Service \cup Resource

VARIABLE status    \* offline, online, leaving, gone or absent

Below(n) == {c \in Node \ {Root} : Parent[c] = n}

Init == \E born \in SUBSET Resource :
          status = [n \in Node |-> IF n \in Service THEN "offline"
                                   ELSE IF n \in born THEN "online" ELSE "absent"]

Set(n, s) == status' = [status EXCEPT ![n] = s]

Join(n) ==
    /\ status[n] = "offline"
    /\ \A c \in Below(n) : status[c] \in {"online", "absent"}
    /\ \A p \in Service : <<n, p>> \in Uses => status[p] = "online"
    /\ Set(n, "online")

Appear(r) ==
    /\ r \in Resource /\ status[r] = "absent"
    /\ status[Parent[r]] \in {"online", "leaving"}
    /\ Set(r, "online")

\* Told to leave: by its parent, or, a resource, by the owner that still runs.
Leave(n) ==
    /\ status[n] = "online"
    /\ n = Root \/ n \in Resource \/ status[Parent[n]] = "leaving"
    /\ \A c \in Service : <<c, n>> \in Uses => status[c] = "gone"
    /\ Set(n, "leaving")

Finish(n) ==
    /\ status[n] = "leaving"
    /\ \A c \in Below(n) : status[c] \in {"gone", "absent"}
    /\ Set(n, "gone")

Vanish(r) ==
    /\ r \in Resource /\ status[r] = "gone"
    /\ \A c \in Below(r) : status[c] = "absent"
    /\ Set(r, "absent")

Next == \E n \in Node : Join(n) \/ Appear(n) \/ Leave(n) \/ Finish(n) \/ Vanish(n)

Safety == Init /\ [][Next]_status

\* Once the root leaves, everything below it is gone in the end.
Termination == status[Root] = "leaving" ~> \A n \in Node : status[n] \in {"gone", "absent"}

Contract == Safety /\ Termination
=============================================================================
