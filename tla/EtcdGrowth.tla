----------------------------- MODULE EtcdGrowth -----------------------------
(***************************************************************************)
(* What "the cluster is grown in a serial manner" promises of etcd while   *)
(* the masters join (the header of the first master's script).  A master   *)
(* becomes a member when every member there is has been seen to run; until *)
(* it has been seen to run itself it may come up, be taken out again, or   *)
(* hang on dead, and the others stay as they are.                          *)
(*                                                                         *)
(* Bootstrap implements it: however its joins fail, whoever dies.          *)
(***************************************************************************)
EXTENDS Integers, FiniteSets

CONSTANTS Node, first      \* the masters; kubeadm init runs on the first

VARIABLES member,    \* the members of etcd
          running,   \* those that run
          settled    \* those that were seen to run before the next one was added

vars == <<member, running, settled>>

Init == member = {} /\ running = {} /\ settled = {}

Found == /\ member = {}
         /\ member' = {first} /\ running' = {first}
         /\ UNCHANGED settled

Settle == /\ member # {} /\ running = member
          /\ settled' = member
          /\ UNCHANGED <<member, running>>

Add(m) == /\ settled # {} /\ settled = member /\ m \notin member
          /\ member' = member \cup {m} /\ running' \in {running, running \cup {m}}
          /\ UNCHANGED settled

Start(m) == /\ m \in member \ running
            /\ running' = running \cup {m}
            /\ UNCHANGED <<member, settled>>

Majority == 2 * Cardinality(running) > Cardinality(member)

\* A member leaves only if the majority agrees.
Withdraw(m) == /\ m \in member \ settled /\ settled # {}
               /\ running' = running \ {m}
               /\ member' = member \/ (Majority /\ member' = member \ {m})
               /\ UNCHANGED settled

Next == \/ Found \/ Settle
        \/ \E m \in Node : Add(m) \/ Start(m) \/ Withdraw(m)

Spec == Init /\ [][Next]_vars

-----------------------------------------------------------------------------
\* One member at most has not been seen to run, and all the others run.
Serial == /\ settled \subseteq running /\ running \subseteq member /\ member \subseteq Node
          /\ \A m, n \in member \ settled : m = n

\* From the third member on etcd has its majority.
KeepsMajority == Cardinality(member) >= 3 => Majority

\* Withdrawals and failures never reach back to a member that was seen to run.
SettledStay == [][settled \subseteq settled' /\ settled' \subseteq running']_vars
=============================================================================
