---- MODULE MCSubJournal ----
(* Two records; a record is three units, a chunk two, so that records     *)
(* begin and end in all places of a chunk, and a sub-journal that may     *)
(* spill does so in the second record.                                    *)
EXTENDS SubJournal

CONSTANTS r1, r2

MCSpills == {-1, 0, 4}
====
