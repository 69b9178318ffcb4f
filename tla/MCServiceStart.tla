---------------------------- MODULE MCServiceStart ----------------------------
(* Three processes: two services and a command that index two roots. *)
EXTENDS ServiceStartProps

CONSTANTS p1, p2, p3, r1, r2, s1, l1, l2

OneVersion == [p \in Process |-> 10]
TwoRoots == [p \in Process |-> IF p = p3 THEN r2 ELSE r1]
MostlyServices ==
  [p \in Process |-> IF p = p3 THEN {"index", "serve"} ELSE {"serve", "serve --index"}]
SameSocket == [p \in Process |-> s1]
DefaultLock == [p \in Process |-> l1]

\* p2 was started with another --lock.
OwnLock == [p \in Process |-> IF p = p2 THEN l2 ELSE l1]
OnlyServices == [p \in Process |-> {"serve"}]

\* p2 is an executable of the next schema.
NewerExecutable == [p \in Process |-> IF p = p2 THEN 11 ELSE 10]
OneRoot == [p \in Process |-> r1]
OnlyIndex == [p \in Process |-> {"index"}]
=============================================================================
