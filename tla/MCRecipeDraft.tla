--------------------------- MODULE MCRecipeDraft ---------------------------
(* Model-checking instances of RecipeDraft: a recipe in the store and one  *)
(* to create, and a bounded check of the list edits against what the tool  *)
(* descriptions of the agent say of indexes.                               *)
EXTENDS RecipeDraft

CONSTANTS a, b

E(op, index, text) == [op |-> op, index |-> index, text |-> text]
SomeEdits == {E("set", None, TRUE), E("add", None, TRUE), E("remove", 0, FALSE), E("update", 1, FALSE)}
SetAndAdd == {E("set", None, TRUE), E("add", None, TRUE)}

Short == UNION {[1..n -> {7, 8}] : n \in 0..3}

(* "0-based index" for ingredients and "1-based step number" for steps:    *)
(* within the list the two edits are the same edit (recipeSetIngredients   *)
(* .ts:24, recipeSetDirections.ts:23); an append is an insert at the end.  *)
ASSUME IndexesAgree ==
  \A s \in Short, op \in {"add", "remove", "update"} :
    /\ \A i \in 1..Len(s) :
         EditSteps(E(op, i, TRUE), s, 9) = EditIngredients(E(op, i - 1, TRUE), s, 9)
    /\ EditSteps(E("add", Len(s) + 1, TRUE), s, 9) = EditSteps(E("add", None, TRUE), s, 9)

(* In a list where no text is twice, which is what TypeOK says of every    *)
(* list, Without is the filter of the code (useRecipeTools.ts:206).        *)
ASSUME RemovesAsFiltered ==
  \A s \in UNION {[1..n -> 1..4] : n \in 0..4}, x \in 1..4 :
    IsInjective(s) => Without(s, x) = SelectSeq(s, LAMBDA y : y # x)
=============================================================================
