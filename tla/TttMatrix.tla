----------------------------- MODULE TttMatrix -----------------------------
(***************************************************************************)
(* The conditional-handover time-to-trigger matrix of a gNB                *)
(* (LTENR_GNBRRC.c, region HO_TTT_MATRIX): a linked list with one row per  *)
(* association of a UE, each row holding, for every other cell, the time   *)
(* at which that cell first beat the serving cell by the handover margin.  *)
(* A list is a sequence, its head pointer the first element.  A UE may     *)
(* have several rows (each PHY association appends one); Find and Set      *)
(* always meet the first of them.                                          *)
(***************************************************************************)
EXTENDS Integers, Sequences, FiniteSets

CONSTANT Gnbs          \* the gNBs of the scenario (gnbDCList)

TTT_NOT_SET == -1

\* The rows of UE u, and the first of them on the list.
RowsOf(m, u) == {i \in DOMAIN m : m[i].ueID = u}
FirstRow(m, u) == CHOOSE i \in RowsOf(m, u) : \A j \in RowsOf(m, u) : i <= j

\* Mutants: a row with an entry for the serving cell too, and a row whose
\* entries stay at the zero of calloc.
NewRow_WithServing(g, u) == [ueID |-> u,
                             TriggerTime |-> [c \in Gnbs |-> TTT_NOT_SET]]
NewRow_Zeroed(g, u) == [ueID |-> u, TriggerTime |-> [c \in Gnbs \ {g} |-> 0]]

\* A row just appended by gNB g: a trigger entry for every cell but g.
NewRow(g, u) == [ueID |-> u,
                 TriggerTime |-> [c \in Gnbs \ {g} |-> TTT_NOT_SET]]

Add(m, g, u) == Append(m, NewRow(g, u))

(***************************************************************************)
(* Remove walks the list with the iterator it afterwards stores back as    *)
(* the list's head: the matrix becomes the tail behind the removed row,    *)
(* and is emptied when the UE has no row.                                  *)
(***************************************************************************)
Remove(m, u) ==
    IF RowsOf(m, u) = {} THEN << >>
                         ELSE SubSeq(m, FirstRow(m, u) + 1, Len(m))

\* The trigger time of cell c for UE u, or -1 when the UE has no row.
Find(m, u, c) ==
    IF RowsOf(m, u) = {} THEN TTT_NOT_SET
                         ELSE m[FirstRow(m, u)].TriggerTime[c]

\* Store the trigger times tt for UE u; nothing happens without a row.
Set(m, u, tt) ==
    IF RowsOf(m, u) = {} THEN m
                         ELSE [m EXCEPT ![FirstRow(m, u)].TriggerTime = tt]
=============================================================================
