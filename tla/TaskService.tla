---------------------------- MODULE TaskService ----------------------------
(***************************************************************************)
(* What the user of the application may rely on: every tap that submits a  *)
(* task is answered at most once, in the order of the taps, and is answered *)
(* in the end unless the process is killed first.  Nothing is said of what *)
(* the tasks do.                                                            *)
(***************************************************************************)
EXTENDS Integers, Sequences

VARIABLES
  submitted,  \* how many tasks were submitted; task k is the k-th tap
  pending,    \* the tasks submitted and neither answered nor lost
  answered,   \* the tasks answered, in the order of the answers
  lost        \* the tasks that died with their process

vars == <<submitted, pending, answered, lost>>

Init == submitted = 0 /\ pending = {} /\ answered = << >> /\ lost = {}

(* A tap submits the next task. *)
Submit ==
  /\ submitted' = submitted + 1
  /\ pending' = pending \cup {submitted + 1}
  /\ UNCHANGED <<answered, lost>>

Oldest(t) == t \in pending /\ \A u \in pending : t <= u

(* The oldest pending task is answered. *)
Answer ==
  \E t \in pending :
    /\ Oldest(t)
    /\ pending' = pending \ {t}
    /\ answered' = Append(answered, t)
    /\ UNCHANGED <<submitted, lost>>

(* The process dies and with it everything that is pending. *)
Crash ==
  /\ pending' = {} /\ lost' = lost \cup pending
  /\ UNCHANGED <<submitted, answered>>

Next == Submit \/ Answer \/ Crash

Spec == Init /\ [][Next]_vars

-----------------------------------------------------------------------------
TypeOK ==
  /\ submitted \in Nat
  /\ pending \subseteq 1..submitted /\ lost \subseteq 1..submitted
  /\ answered \in Seq(1..submitted)

IsAnswered(t) == \E i \in DOMAIN answered : answered[i] = t

(* Answers come in the order of the taps (Button.onClick in                 *)
(* MainActivity.java): no task is answered after a later one, or twice.     *)
AnsweredInOrder ==
  /\ \A i, j \in DOMAIN answered : i < j => answered[i] < answered[j]
  /\ \A i \in DOMAIN answered, t \in pending : answered[i] < t

(* No task vanishes: each is pending, answered or lost with its process,    *)
(* and only one of the three.                                               *)
NoneVanishes ==
  /\ \A t \in 1..submitted : t \in pending \cup lost \/ IsAnswered(t)
  /\ pending \cap lost = {}
  /\ \A t \in pending \cup lost : ~IsAnswered(t)

=============================================================================
