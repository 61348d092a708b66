------------------------------ MODULE Delivery ------------------------------
(***************************************************************************)
(* What the message task pool of src/src/core/tbox_task.c promises to the  *)
(* senders of messages.  A task keeps the messages it accepted in the      *)
(* order it accepted them, handles one at a time from the oldest on, and   *)
(* handles no message a second time.  A task may lose the messages it has  *)
(* not begun (it is stopped, reset, forbidden or detached) and the one it  *)
(* has begun (it is deleted), but it loses the waiting ones all together.  *)
(***************************************************************************)
EXTENDS Sequences, FiniteSets

CONSTANTS Tasks, Msgs, NoMsg

VARIABLES inbox,     \* messages accepted by each task and not begun
          current,   \* message each task is handling, or NoMsg
          served     \* messages whose handling has begun

vars == <<inbox, current, served>>

Waiting == UNION {{inbox[t][i] : i \in DOMAIN inbox[t]} : t \in Tasks}

Init == /\ inbox = [t \in Tasks |-> <<>>]
        /\ current = [t \in Tasks |-> NoMsg]
        /\ served = {}

(* A task accepts a message that is new to the pool. *)
Accept(t, m) == /\ m \notin served \cup Waiting
                /\ inbox' = [inbox EXCEPT ![t] = Append(@, m)]
                /\ UNCHANGED <<current, served>>

Begin(t) == /\ current[t] = NoMsg
            /\ inbox[t] # <<>>
            /\ current' = [current EXCEPT ![t] = Head(inbox[t])]
            /\ inbox' = [inbox EXCEPT ![t] = Tail(@)]
            /\ served' = served \cup {Head(inbox[t])}

End(t) == /\ current[t] # NoMsg
          /\ current' = [current EXCEPT ![t] = NoMsg]
          /\ UNCHANGED <<inbox, served>>

Drop(t) == /\ inbox' = [inbox EXCEPT ![t] = <<>>]
           /\ UNCHANGED <<current, served>>

Next == \E t \in Tasks : \/ \E m \in Msgs : Accept(t, m)
                         \/ Begin(t)
                         \/ End(t)
                         \/ Drop(t)

Spec == Init /\ [][Next]_vars
=============================================================================
