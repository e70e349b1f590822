-------------------------- MODULE NotificationFeed --------------------------
(***************************************************************************)
(* What the hub promises about notifications, with no streams, buffers or  *)
(* locks: a notification that is raised is either given to somebody or     *)
(* held for the next client, never both; the first client to come is given *)
(* everything that is held; of what is held only the last Keep are kept.   *)
(***************************************************************************)
EXTENDS Integers, Sequences

CONSTANTS Notes, Keep

VARIABLES
  raised,   \* the notifications routed so far
  given,    \* those handed to at least one client
  held      \* those held for the next client, oldest first

feed == <<raised, given, held>>

Newest(s) == IF Len(s) > Keep THEN SubSeq(s, 1 + Len(s) - Keep, Len(s)) ELSE s

Init == raised = {} /\ given = {} /\ held = <<>>

Give(n) ==
  /\ n \notin raised
  /\ raised' = raised \cup {n} /\ given' = given \cup {n}
  /\ UNCHANGED held

Hold(n) ==
  /\ n \notin raised
  /\ raised' = raised \cup {n} /\ held' = Newest(Append(held, n))
  /\ UNCHANGED given

HandOver ==
  /\ given' = given \cup {held[i] : i \in DOMAIN held}
  /\ held' = <<>>
  /\ UNCHANGED raised

Next == HandOver \/ \E n \in Notes : Give(n) \/ Hold(n)

Spec == Init /\ [][Next]_feed
=============================================================================
