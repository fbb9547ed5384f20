--------------------------- MODULE RecordLog ---------------------------
(* What the pager expects of its sub-journal: a log to which it appends   *)
(* records, with a mark for each open savepoint.  A rollback is given     *)
(* what was appended since the mark, record by record and in order.       *)
EXTENDS Naturals, Sequences

CONSTANT Record

VARIABLES
    log,        \* the records
    mark,       \* by savepoint: the length of the log when it was opened
    due,        \* the records that the running rollback is still to be given
    given       \* the records that the last rollback was given

logVars == <<log, mark, due, given>>

Init ==
    /\ log = <<>>
    /\ mark = <<>>
    /\ due = <<>>
    /\ given = <<>>

\* No rollback is running.
Resting == due = <<>>

Open ==
    /\ Resting
    /\ mark' = Append(mark, Len(log))
    /\ UNCHANGED <<log, due, given>>

Save(r) ==
    /\ Resting
    /\ mark # <<>>
    /\ log' = Append(log, r)
    /\ UNCHANGED <<mark, due, given>>

\* With the outermost savepoint goes the log.
Release(i) ==
    /\ Resting
    /\ mark' = SubSeq(mark, 1, i - 1)
    /\ log' = IF i = 1 THEN <<>> ELSE log
    /\ UNCHANGED <<due, given>>

Rollback(i) ==
    /\ Resting
    /\ mark' = SubSeq(mark, 1, i)
    /\ due' = SubSeq(log, mark[i] + 1, Len(log))
    /\ given' = <<>>
    /\ UNCHANGED log

Give ==
    /\ ~Resting
    /\ given' = Append(given, Head(due))
    /\ due' = Tail(due)
    /\ UNCHANGED <<log, mark>>

\* The rollback fails.
Break ==
    /\ due' = <<>>
    /\ UNCHANGED <<log, mark, given>>

\* The whole transaction is rolled back and goes on, or it ends.
Forget ==
    /\ Resting
    /\ mark' = <<>>
    /\ log' \in {log, <<>>}
    /\ UNCHANGED <<due, given>>

Next ==
    \/ Open \/ Give \/ Break \/ Forget
    \/ \E r \in Record : Save(r)
    \/ \E i \in 1 .. Len(mark) : Release(i) \/ Rollback(i)

Spec == Init /\ [][Next]_logVars
=============================================================================
