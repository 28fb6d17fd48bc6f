--------------------------- MODULE CompletionItem ---------------------------
(***************************************************************************)
(* The tags of completion items (mutexgear_completion_item_settag and its  *)
(* relatives in include/mutexgear/completion.h).  The word extra_data of   *)
(* an item holds a bit per tag; here a tag is the set of the items that    *)
(* have it.  The relaxed and the unsafe forms differ in who may write the  *)
(* word at the same time: each tag is set under the lock of the queue that *)
(* the item is in and cleared when nobody else can reach the item.         *)
(***************************************************************************)
EXTENDS SequencesExt

HasTag(tag, i) == i \in tag

HasAnyTag(tags, i) == \E tag \in tags : HasTag(tag, i)

WithTag(tag, i, value) == IF value THEN tag \cup {i} ELSE tag \ {i}

\* What unsafemodifytag returns: the item did not have the value.
ModifiesTag(tag, i, value) == HasTag(tag, i) # value

\* setallunsafetags(false), tag by tag.
WithoutTags(tag, i) == WithTag(tag, i, FALSE)
=============================================================================
