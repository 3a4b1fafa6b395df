------------------------------ MODULE Attention ------------------------------
(***************************************************************************)
(* What a worker owes an instance that is made from inputs others change   *)
(* under it, with no word on how it hears of the changes: no change goes   *)
(* by without a reminder, and only a new reading of the inputs answers it. *)
(* Some reminders take the length of a requeue timer.                      *)
(***************************************************************************)
CONSTANTS Nothing       \* the worker has read nothing, or has done with it

VARIABLES wanted,       \* what the instance is to be made of
          copied,       \* the contents of what that refers to
          taken,        \* what the worker has read of it and is at work on
          due,          \* an event will bring the worker to the instance
          late          \* only the timer will

vars == <<wanted, copied, taken, due, late>>

Init == taken = Nothing /\ (due \/ late)

\* Reminders only become more.
Louder == (due => due') /\ (late => late')

\* Inputs change, also while the worker is busy with those of before.
Change == /\ wanted' # wanted \/ copied' # copied
          /\ due' \/ late'
          /\ Louder /\ UNCHANGED taken

Remind == Louder /\ UNCHANGED <<wanted, copied, taken>>

\* An event is lost; the timer has to do.
Postpone == late' /\ UNCHANGED <<wanted, copied, taken>>

\* The worker turns to the instance, and reads all its inputs before it forgets
\* what reminded it.
Attend == taken = Nothing /\ due' /\ UNCHANGED <<wanted, copied, taken>>
Take   == taken = Nothing /\ taken' = wanted /\ UNCHANGED <<wanted, copied>>

Finish == taken' = Nothing /\ Louder /\ UNCHANGED <<wanted, copied>>

\* The worker fails or restarts, and is told to begin anew.
Restart == taken' = Nothing /\ due' /\ UNCHANGED <<wanted, copied>>

Next == Change \/ Remind \/ Postpone \/ Attend \/ Take \/ Finish \/ Restart

Spec == Init /\ [][Next]_vars

\* What the worker is at work on is what is wanted, or it will look again.
Aware == taken \in {Nothing, wanted} \/ due \/ late
=============================================================================
