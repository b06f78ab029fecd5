---------------------------- MODULE SearchIndex ----------------------------
(***************************************************************************)
(* What the store keeps beside its rows to find them again: one table of  *)
(* the words of every text (store/search.go) and, when an embedding       *)
(* provider is configured, one vector per text (store/embedding.go).      *)
(* Neither follows its row by itself: each write of a text updates them   *)
(* with statements of its own, after the row's transaction.               *)
(***************************************************************************)
EXTENDS Naturals, FiniteSets

CONSTANTS
    Items,      \* rows that carry text
    Specs,      \* those that are specs: a revision changes their text
    Notes,      \* those that are notes: never sent to the provider
    Models,     \* embedding models
    MaxText     \* bound: texts a row has one after the other, 1..MaxText

ASSUME ItemKindsOk == Specs \subseteq Items /\ Notes \subseteq Items /\ Specs \intersect Notes = {}
ASSUME ItemsAreNumbers == Items \subseteq Nat    \* row ids; the lowest first
ASSUME MaxTextIsPositive == MaxText \in Nat \ {0}

Texts == 1..MaxText
NoVector == [text |-> 0, model |-> "none"]

\* text: the row's text, 0 if there is no such row; words: how many times each
\* text is in the word table (nothing keeps it unique).
Indexes == [text : [Items -> 0..MaxText],
            words : [Items -> [Texts -> 0..2]],
            vector : [Items -> [text : 0..MaxText, model : Models \union {"none"}]]]

NoWords == [t \in Texts |-> 0]
NoIndex == [text |-> [i \in Items |-> 0], words |-> [i \in Items |-> NoWords],
            vector |-> [i \in Items |-> NoVector]]

Rows(ix) == {i \in Items : ix.text[i] # 0}

Written(ix, i, t) == [ix EXCEPT !.text[i] = t]

\* indexForSearch only inserts; reindexForSearch replaces. (Bound: a text counted
\* twice is not counted a third time.)
Indexed(ix, i, t) == [ix EXCEPT !.words[i][t] = IF @ < 2 THEN @ + 1 ELSE 2]

\* reindexForSearch as it would be if it only inserted.
Reindexed_Inserts(ix, i, t) == Indexed(ix, i, t)
Reindexed(ix, i, t) == [ix EXCEPT !.words[i] = [NoWords EXCEPT ![t] = 1]]

\* upsertEmbedding as it would be if it kept a vector that is there.
Embedded_Once(ix, i, t, model) ==
    IF ix.vector[i] = NoVector
    THEN [ix EXCEPT !.vector[i] = [text |-> t, model |-> model]] ELSE ix

\* upsertEmbedding: one vector per row, whatever model it had before.
Embedded(ix, i, t, model) == [ix EXCEPT !.vector[i] = [text |-> t, model |-> model]]

\* rebuildSearchIndex empties the word table first; vectors are left alone.
Emptied(ix) == [ix EXCEPT !.words = [i \in Items |-> NoWords]]

\* Which texts a write sends to the provider, and which a backfill does: as they
\* would be if notes were not told apart, and as they are.
Embeds_Everything(i) == TRUE
Embeds(i) == i \notin Notes

\* RowsMissingEmbeddings: rows of the word table without a vector of this model,
\* with the text the word table has.
Missing(ix, model) ==
    {e \in [item : Items, text : Texts] :
        ix.words[e.item][e.text] > 0 /\ ix.vector[e.item].model # model}

\* The word table has the row's present text, once, and nothing else of it.
FoundByItsText(ix, i) == ix.words[i] = [NoWords EXCEPT ![ix.text[i]] = 1]
=============================================================================
