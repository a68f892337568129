---------------------------- MODULE UnifiedMerge ----------------------------
(***************************************************************************)
(* mergeIntoUnifiedInbox (internal/ui/unified_inbox_merge.go): how lists   *)
(* of new messages get into the message list without duplicates.  An item  *)
(* has an account, a UID and an identity, which is a Message-ID unless it  *)
(* is among the Unnamed: for these the code has the UID in digits.         *)
(***************************************************************************)
EXTENDS Integers, Sequences, SequencesExt

CONSTANT Unnamed

SameSlot(x, y) == x.acct = y.acct /\ x.uid = y.uid

hasMessageID(id) == id \notin Unnamed

\* The list so far and, for each account, the Message-IDs that are known.
Known(list) ==
  {<<list[i].acct, list[i].id>> : i \in {j \in DOMAIN list : hasMessageID(list[j].id)}}

\* Fault: without a Message-ID nothing is a duplicate.
mergeOne_NeedsID(m, new) ==
  IF hasMessageID(new.id) /\ \E i \in DOMAIN m.list : SameSlot(m.list[i], new) THEN m
  ELSE [m EXCEPT !.list = Append(@, new)]

\* One message: dropped if it is known, put in the place of one whose UID it
\* has, or added.  The identity of a replaced message stays known.
mergeOne(m, new) ==
  LET known == hasMessageID(new.id) /\ <<new.acct, new.id>> \in m.ids
      ids == IF hasMessageID(new.id) THEN m.ids \cup {<<new.acct, new.id>>} ELSE m.ids
      at == {i \in DOMAIN m.list : SameSlot(m.list[i], new)}
      same(id) == id = new.id \/ ~(hasMessageID(id) \/ hasMessageID(new.id))
  IN  CASE known -> m
        [] ~known /\ at = {} -> [list |-> Append(m.list, new), ids |-> ids]
        [] ~known /\ at # {}
             -> LET i == CHOOSE i \in at : \A j \in at : j <= i
                IN  IF same(m.list[i].id) THEN m
                    ELSE [list |-> [m.list EXCEPT ![i] = new], ids |-> ids]

mergeIntoUnifiedInbox(existing, incoming) ==
  FoldLeft(mergeOne, [list |-> existing, ids |-> Known(existing)], incoming).list
=============================================================================
